---- MODULE Spec2Model ----
(***************************************************************************)
(* Model of the document intelligence system's deterministic core:         *)
(*   - BaseProcessor.createChunks as driven by TextProcessor.process       *)
(*     (src/src/processors/BaseProcessor.ts, TextProcessor.ts),            *)
(*   - the InsightAnalyzer / SummaryAnalyzer provider-call operations and  *)
(*     the response parsers (src/src/analyzers/InsightAnalyzer.ts,         *)
(*     src/unnamed/part_001).                                              *)
(* Text is a sequence of one-character strings.                            *)
(***************************************************************************)
EXTENDS Integers, Sequences, FiniteSets, TLC

\* ------------------------------------------------------------------ bounds
MaxLen == 3          \* longest document content, in characters
MaxWindow == 3       \* largest configured chunkSize / chunkOverlap
MaxCalls == 2        \* calls of TextProcessor.process in one run
MaxChunks == MaxLen + 2   \* chunks recorded per call: more than any terminating run emits

Min(a, b) == IF a < b THEN a ELSE b
Max(a, b) == IF a > b THEN a ELSE b

\* ------------------------------------------------------------------ state
VARIABLES
  content,      \* the file's text, as read by fs.readFile
  chunkSize,    \* config.settings.chunkSize
  chunkOverlap, \* config.settings.chunkOverlap
  pc,           \* position of the TextProcessor.process call
  documentId,   \* document.id of the call in progress
  startIndex,   \* createChunks local
  chunkIndex,   \* createChunks local
  chunks,       \* createChunks local: the array being built
  uuidCount,    \* number of uuidv4() values drawn so far
  results,      \* arrays returned by completed createChunks calls
  apiKeys,      \* providers whose API key is set in config
  llm,          \* ModelManager.llm: the cached client, "none" before the first getLLM
  aop,          \* the analyzer operation in progress
  apc,          \* its position: idle, invoking (awaiting llm.invoke), settled
  failure,      \* how the provider call failed, "none" if it did not
  responseText, \* response.content.toString() of a resolved llm.invoke
  parserThrew,  \* an exception left the response parser
  outcome,      \* how the operation's promise settled: resolved or rejected
  opResult,     \* the value it resolved to
  parseInput,   \* provider text handed to a response parser
  parseFn,      \* the parser applied to it, "none" before the call
  parseOutput,  \* what that parser returned
  query,        \* findSimilarConcepts argument
  searchChunks, \* findSimilarConcepts argument: the chunks, in document order
  searchScores, \* its local `scored`: the score of each chunk, in the same order
  searchOutcome, \* how its promise settled, "none" before the call
  searchResult, \* the chunks it resolved to
  insightText,  \* generateInsights argument
  insightPc,    \* idle before the call, returned after it
  insights,     \* the object generateInsights returned
  systemReady,  \* simple-server.ts: let systemReady
  initPc,       \* position of initialize(): notStarted, testing, done
  connTest,     \* what testConnection resolved to: none, passed, failed
  initResult,   \* what initialize() resolved to: none, true, false
  listening,    \* app.listen has been called
  task,         \* the DocumentIntelligenceSystem operation in progress
  taskCount,    \* operations started so far
  opLog,        \* analyzer calls made by the latest operation, in call order
  disk,         \* the files that exist: path -> content
  storeDocuments, \* DocumentStore.documents: id -> document
  storeChunks,  \* DocumentStore.chunks: id -> chunk list
  reqs,         \* the processFile calls and upload requests, by number
  idCount,      \* uuidv4() values drawn by the server process so far
  lightDocuments \* the lightweight server's documents map: id -> document

chunkVars == <<content, chunkSize, chunkOverlap, pc, documentId, startIndex,
               chunkIndex, chunks, uuidCount, results>>

analyzeVars == <<apiKeys, llm, aop, apc, failure, responseText, parserThrew, outcome, opResult>>

parseVars == <<parseInput, parseFn, parseOutput>>

\* Components other than the chunker and the analyzers, not yet called.
searchVars == <<query, searchChunks, searchScores, searchOutcome, searchResult>>

insightVars == <<insightText, insightPc, insights>>

ParseIdle ==
  /\ parseInput = <<>>
  /\ parseFn = "none"
  /\ parseOutput = <<>>

SearchIdle ==
  /\ query = <<>>
  /\ searchChunks = <<>>
  /\ searchScores = <<>>
  /\ searchOutcome = "none"
  /\ searchResult = <<>>

InsightIdle ==
  /\ insightText = <<>>
  /\ insightPc = "idle"
  /\ insights = <<>>

systemVars == <<systemReady, initPc, connTest, initResult, listening, task, taskCount,
                opLog>>

storeVars == <<disk, storeDocuments, storeChunks, reqs, idCount, lightDocuments>>

restVars == <<systemVars, storeVars>>

\* No operation called yet; a later operation stays in task, marked taken,
\* after the caller has its result.
NoTask == [kind |-> "none", docs |-> <<>>, taken |-> TRUE]

SystemIdle ==
  /\ systemReady = FALSE
  /\ initPc = "notStarted"
  /\ connTest = "none"
  /\ initResult = "none"
  /\ listening = FALSE
  /\ task = NoTask
  /\ taskCount = 0
  /\ opLog = <<>>

StoreIdle ==
  /\ disk = <<>>
  /\ storeDocuments = <<>>
  /\ storeChunks = <<>>
  /\ reqs = <<>>
  /\ idCount = 0
  /\ lightDocuments = <<>>

RestIdle == SystemIdle /\ StoreIdle

\* Components other than the chunker and the analyzers, not yet called.
PureIdle == ParseIdle /\ SearchIdle /\ InsightIdle /\ RestIdle

pureVars == <<parseVars, searchVars, insightVars, restVars>>

vars == <<chunkVars, analyzeVars, pureVars>>

\* ------------------------------------------------------------------ text
DocAlphabet == {"a", "b"}

RECURSIVE SeqsUpTo(_, _)
SeqsUpTo(S, n) ==
  IF n = 0 THEN {<<>>}
  ELSE LET shorter == SeqsUpTo(S, n - 1)
       IN  shorter \cup {Append(s, c) : s \in {t \in shorter : Len(t) = n - 1}, c \in S}

\* String.prototype.slice(start, end): negative offsets count from the end,
\* both are clamped to [0, length], and an empty range gives "".
Slice(s, start, end) ==
  LET n == Len(s)
      from == IF start < 0 THEN Max(n + start, 0) ELSE Min(start, n)
      to == IF end < 0 THEN Max(n + end, 0) ELSE Min(end, n)
  IN  IF from >= to THEN <<>> ELSE SubSeq(s, from + 1, to)


\* ------------------------------------------------------------------ strings
\* JavaScript string operations on sequences of one-character strings.
Whitespace == {" ", "\n", "\t"}
Digits == {"0", "1", "2", "3", "4", "5", "6", "7", "8", "9"}

\* String.prototype.toLowerCase, on the upper-case letters of the alphabet.
UpperLower == ("A" :> "a") @@ ("K" :> "k") @@ ("E" :> "e") @@ ("T" :> "t") @@ ("C" :> "c") @@
              ("M" :> "m") @@ ("O" :> "o") @@ ("P" :> "p") @@ ("S" :> "s") @@ ("Q" :> "q")
LowerChar(c) == IF c \in DOMAIN UpperLower THEN UpperLower[c] ELSE c
ToLowerCase(s) == [i \in 1..Len(s) |-> LowerChar(s[i])]

\* String.prototype.includes
Includes(s, sub) ==
  \E i \in 1..(Len(s) - Len(sub) + 1) : SubSeq(s, i, i + Len(sub) - 1) = sub

StartsWith(s, i, sub) ==
  /\ i + Len(sub) - 1 <= Len(s)
  /\ SubSeq(s, i, i + Len(sub) - 1) = sub

\* String.prototype.trim
Trim(s) ==
  LET solid == {i \in 1..Len(s) : s[i] \notin Whitespace}
  IN  IF solid = {} THEN <<>>
      ELSE SubSeq(s, CHOOSE i \in solid : \A j \in solid : i <= j,
                     CHOOSE i \in solid : \A j \in solid : i >= j)

\* String.prototype.split('\n')
RECURSIVE SplitLines(_)
SplitLines(s) ==
  LET breaks == {i \in 1..Len(s) : s[i] = "\n"}
  IN  IF breaks = {} THEN <<s>>
      ELSE LET b == CHOOSE i \in breaks : \A j \in breaks : i <= j
           IN  <<SubSeq(s, 1, b - 1)>> \o SplitLines(SubSeq(s, b + 1, Len(s)))

\* First index >= i whose character is not in S (Len(s) + 1 if none).
SkipWhile(s, i, S) ==
  LET stops == {j \in i..Len(s) : s[j] \notin S}
  IN  IF stops = {} THEN Max(i, Len(s) + 1)
      ELSE CHOOSE j \in stops : \A k \in stops : j <= k

\* ------------------------------------------------------------------ JSON.parse
\* A JSON value: t is its type; s the text of a string, number or literal;
\* items the elements of an array; members the key/value pairs of an object.
JVal(t, s, items, members) == [t |-> t, s |-> s, items |-> items, members |-> members]
JUndefined == JVal("undefined", <<>>, <<>>, <<>>)
JStr(s) == JVal("string", s, <<>>, <<>>)
JNum(s) == JVal("number", s, <<>>, <<>>)
JLit(s) == JVal("literal", s, <<>>, <<>>)
JArr(items) == JVal("array", <<>>, items, <<>>)
JObj(members) == JVal("object", <<>>, <<>>, members)

JsonWs == {" ", "\n", "\t", "\r"}
StringControl == {"\n", "\t", "\r"}
Bad == [ok |-> FALSE, pos |-> 0, val |-> JUndefined]
Good(p, v) == [ok |-> TRUE, pos |-> p, val |-> v]
At(s, i) == IF i >= 1 /\ i <= Len(s) THEN s[i] ELSE "<end>"

\* s[i] is the opening quote. Escapes are not modelled: the response alphabet
\* has no backslash.
ParseString(s, i) ==
  LET ends == {j \in (i + 1)..Len(s) : s[j] = "\""}
  IN  IF ends = {} THEN Bad
      ELSE LET j == CHOOSE e \in ends : \A f \in ends : e <= f
           IN  IF \E k \in (i + 1)..(j - 1) : s[k] \in StringControl THEN Bad
               ELSE Good(j + 1, JStr(SubSeq(s, i + 1, j - 1)))

\* -? (0 | [1-9][0-9]*) (. [0-9]+)? ([eE] [+-]? [0-9]+)?
ParseNumber(s, i) ==
  LET p1 == IF At(s, i) = "-" THEN i + 1 ELSE i
      p2 == IF At(s, p1) = "0" THEN p1 + 1 ELSE SkipWhile(s, p1, Digits)
      fracEnd == SkipWhile(s, p2 + 1, Digits)
      p3 == IF At(s, p2) = "." THEN fracEnd ELSE p2
      signed == IF At(s, p3 + 1) \in {"+", "-"} THEN p3 + 2 ELSE p3 + 1
      expEnd == SkipWhile(s, signed, Digits)
      p4 == IF At(s, p3) \in {"e", "E"} THEN expEnd ELSE p3
  IN  IF At(s, p1) \notin Digits THEN Bad
      ELSE IF At(s, p2) = "." /\ fracEnd = p2 + 1 THEN Bad
      ELSE IF At(s, p3) \in {"e", "E"} /\ expEnd = signed THEN Bad
      ELSE Good(p4, JNum(SubSeq(s, i, p4 - 1)))

LitTrue == <<"t", "r", "u", "e">>
LitFalse == <<"f", "a", "l", "s", "e">>
LitNull == <<"n", "u", "l", "l">>

ParseLiteral(s, i) ==
  IF StartsWith(s, i, LitTrue) THEN Good(i + 4, JLit(LitTrue))
  ELSE IF StartsWith(s, i, LitFalse) THEN Good(i + 5, JLit(LitFalse))
  ELSE IF StartsWith(s, i, LitNull) THEN Good(i + 4, JLit(LitNull))
  ELSE Bad

RECURSIVE ParseValue(_, _), ParseMembers(_, _, _), ParseElements(_, _, _)

\* A value starting at or after i, leading whitespace skipped.
ParseValue(s, i) ==
  LET j == SkipWhile(s, i, JsonWs)
      c == At(s, j)
  IN  IF c = "{" THEN
        (IF At(s, SkipWhile(s, j + 1, JsonWs)) = "}"
           THEN Good(SkipWhile(s, j + 1, JsonWs) + 1, JObj(<<>>))
           ELSE ParseMembers(s, j + 1, <<>>))
      ELSE IF c = "[" THEN
        (IF At(s, SkipWhile(s, j + 1, JsonWs)) = "]"
           THEN Good(SkipWhile(s, j + 1, JsonWs) + 1, JArr(<<>>))
           ELSE ParseElements(s, j + 1, <<>>))
      ELSE IF c = "\"" THEN ParseString(s, j)
      ELSE IF c = "-" \/ c \in Digits THEN ParseNumber(s, j)
      ELSE ParseLiteral(s, j)

\* "key" : value, then ',' and more members or the closing brace.
ParseMembers(s, i, acc) ==
  LET j == SkipWhile(s, i, JsonWs)
      key == IF At(s, j) = "\"" THEN ParseString(s, j) ELSE Bad
      colon == SkipWhile(s, key.pos, JsonWs)
      v == IF key.ok /\ At(s, colon) = ":" THEN ParseValue(s, colon + 1) ELSE Bad
      after == SkipWhile(s, v.pos, JsonWs)
      members == Append(acc, [k |-> key.val.s, v |-> v.val])
  IN  IF ~v.ok THEN Bad
      ELSE IF At(s, after) = "," THEN ParseMembers(s, after + 1, members)
      ELSE IF At(s, after) = "}" THEN Good(after + 1, JObj(members))
      ELSE Bad

ParseElements(s, i, acc) ==
  LET v == ParseValue(s, i)
      after == SkipWhile(s, v.pos, JsonWs)
      items == Append(acc, v.val)
  IN  IF ~v.ok THEN Bad
      ELSE IF At(s, after) = "," THEN ParseElements(s, after + 1, items)
      ELSE IF At(s, after) = "]" THEN Good(after + 1, JArr(items))
      ELSE Bad

\* JSON.parse(text): ok = FALSE stands for the SyntaxError it throws.
JSONParse(s) ==
  LET v == ParseValue(s, 1)
  IN  IF v.ok /\ SkipWhile(s, v.pos, JsonWs) = Len(s) + 1 THEN v ELSE Bad

\* parsed[name]: the last member with that key, undefined when there is none.
Property(obj, name) ==
  LET hits == {i \in 1..Len(obj.members) : obj.members[i].k = name}
  IN  IF hits = {} THEN JUndefined
      ELSE obj.members[CHOOSE i \in hits : \A j \in hits : i >= j].v

\* The value of a number token is zero.
IsZero(s) ==
  LET mantissaEnd == SkipWhile(s, 1, Digits \cup {"-", "."})
  IN  \A i \in 1..(mantissaEnd - 1) : s[i] \in {"0", "-", "."}

\* JavaScript truthiness, as the || operator tests it.
Truthy(v) ==
  IF v.t = "undefined" THEN FALSE
  ELSE IF v.t = "string" THEN v.s # <<>>
  ELSE IF v.t = "number" THEN ~IsZero(v.s)
  ELSE IF v.t = "literal" THEN v.s = LitTrue
  ELSE TRUE

\* a ?? b: only undefined and null give way to the default.
OrElseNullish(v, default) ==
  IF v.t = "undefined" \/ (v.t = "literal" /\ v.s = LitNull) THEN default ELSE v

\* a || b
OrElse(v, default) == IF Truthy(v) THEN v ELSE default


\* ------------------------------------------------------------------ response parsers
N_keywords == <<"k", "e", "y", "w", "o", "r", "d", "s">>
N_entities == <<"e", "n", "t", "i", "t", "i", "e", "s">>
N_topics == <<"t", "o", "p", "i", "c", "s">>
N_concepts == <<"c", "o", "n", "c", "e", "p", "t", "s">>
N_sentiment == <<"s", "e", "n", "t", "i", "m", "e", "n", "t">>
N_complexity == <<"c", "o", "m", "p", "l", "e", "x", "i", "t", "y">>
N_readabilityScore == <<"r", "e", "a", "d", "a", "b", "i", "l", "i", "t", "y", "S", "c", "o", "r", "e">>
N_keyInsights == <<"k", "e", "y", "I", "n", "s", "i", "g", "h", "t", "s">>
N_recommendations == <<"r", "e", "c", "o", "m", "m", "e", "n", "d", "a", "t", "i", "o", "n", "s">>
N_neutral == <<"n", "e", "u", "t", "r", "a", "l">>
N_medium == <<"m", "e", "d", "i", "u", "m">>
N_fifty == <<"5", "0">>
N_keyPoints == <<"k", "e", "y", " ", "p", "o", "i", "n", "t", "s">>
N_mainPoints == <<"m", "a", "i", "n", " ", "p", "o", "i", "n", "t", "s">>
N_confidence == <<"c", "o", "n", "f", "i", "d", "e", "n", "c", "e">>

\* response.match(/\{[\s\S]*\}/): greedy, from the first '{' to the last '}'
\* after it; no match when no '}' follows the first '{'.
JsonMatch(response) ==
  LET opens == {i \in 1..Len(response) : response[i] = "{"}
      first == CHOOSE i \in opens : \A j \in opens : i <= j
      closes == {j \in 1..Len(response) : response[j] = "}" /\ j > first}
      last == CHOOSE i \in closes : \A j \in closes : i >= j
  IN  IF opens = {} THEN [found |-> FALSE, span |-> <<>>]
      ELSE IF closes = {} THEN [found |-> FALSE, span |-> <<>>]
      ELSE [found |-> TRUE, span |-> SubSeq(response, first, last)]

\* The bullet U+2022, written "@" here (module text is ASCII).
BulletChar == "@"

\* line.match(/[<bullet>\-\d+\.]\s*(.+)/): unanchored; the leftmost character
\* of the class that has at least one character after it. text is
\* match[1].trim().
BulletClass == {BulletChar, "-", "+", "."} \cup Digits
BulletMatch(line) ==
  LET hits == {i \in 1..(Len(line) - 1) : line[i] \in BulletClass}
      first == CHOOSE i \in hits : \A j \in hits : i <= j
  IN  IF hits = {} THEN [found |-> FALSE, text |-> <<>>]
      ELSE [found |-> TRUE, text |-> Trim(SubSeq(line, first + 1, Len(line)))]

\* line.match(/^\d+\./)
NumberedHeading(line) ==
  LET d == SkipWhile(line, 1, Digits)
  IN  d > 1 /\ At(line, d) = "."

\* The for loop of extractListFromText from line i on.
RECURSIVE ScanList(_, _, _, _, _)
ScanList(lines, i, listName, inSection, items) ==
  IF i > Len(lines) THEN items
  ELSE IF Includes(ToLowerCase(lines[i]), ToLowerCase(listName))
    THEN ScanList(lines, i + 1, listName, TRUE, items)
  ELSE IF ~inSection THEN ScanList(lines, i + 1, listName, FALSE, items)
  ELSE IF BulletMatch(lines[i]).found
    THEN ScanList(lines, i + 1, listName, TRUE, Append(items, BulletMatch(lines[i]).text))
  ELSE IF Trim(lines[i]) = <<>> \/ NumberedHeading(lines[i])
    THEN ScanList(lines, i + 1, listName, FALSE, items)
  ELSE ScanList(lines, i + 1, listName, TRUE, items)

ExtractListFromText(text, listName) ==
  ScanList(SplitLines(text), 1, listName, FALSE, <<>>)

\* A string[] as a value.
StringList(items) == JArr([i \in 1..Len(items) |-> JStr(items[i])])

Returned(v) == [threw |-> FALSE, value |-> v]
Thrown == [threw |-> TRUE, value |-> JUndefined]

KeywordFields(parsed) ==
  [keywords |-> OrElse(Property(parsed, N_keywords), JArr(<<>>)),
   entities |-> OrElse(Property(parsed, N_entities), JArr(<<>>)),
   topics |-> OrElse(Property(parsed, N_topics), JArr(<<>>)),
   concepts |-> OrElse(Property(parsed, N_concepts), JArr(<<>>))]

KeywordFallback(response) ==
  [keywords |-> StringList(ExtractListFromText(response, N_keywords)),
   entities |-> StringList(ExtractListFromText(response, N_entities)),
   topics |-> StringList(ExtractListFromText(response, N_topics)),
   concepts |-> StringList(ExtractListFromText(response, N_concepts))]

\* parseKeywordResponse with JSON.parse outside any try block.
ParseKeywordResponseNoCatch(response) ==
  LET m == JsonMatch(response)
      parsed == JSONParse(m.span)
  IN  IF m.found /\ parsed.ok THEN Returned(KeywordFields(parsed.val))
      ELSE IF m.found THEN Thrown
      ELSE Returned(KeywordFallback(response))

ParseKeywordResponse(response) ==
  LET m == JsonMatch(response)
      parsed == JSONParse(m.span)
  IN  IF m.found /\ parsed.ok THEN Returned(KeywordFields(parsed.val))
      ELSE Returned(KeywordFallback(response))

DefaultInsights ==
  [sentiment |-> JStr(N_neutral),
   topics |-> JArr(<<>>),
   complexity |-> JStr(N_medium),
   readabilityScore |-> JNum(N_fifty),
   keyInsights |-> JArr(<<>>),
   recommendations |-> JArr(<<>>)]

InsightFields(parsed) ==
  [sentiment |-> OrElse(Property(parsed, N_sentiment), JStr(N_neutral)),
   topics |-> OrElse(Property(parsed, N_topics), JArr(<<>>)),
   complexity |-> OrElse(Property(parsed, N_complexity), JStr(N_medium)),
   readabilityScore |-> OrElse(Property(parsed, N_readabilityScore), JNum(N_fifty)),
   keyInsights |-> OrElse(Property(parsed, N_keyInsights), JArr(<<>>)),
   recommendations |-> OrElse(Property(parsed, N_recommendations), JArr(<<>>))]

ParseInsightResponse(response) ==
  LET m == JsonMatch(response)
      parsed == JSONParse(m.span)
  IN  IF m.found /\ parsed.ok THEN Returned(InsightFields(parsed.val))
      ELSE Returned(DefaultInsights)

\* line.match(/^\d+\.\s*(.+)/), giving match[1].trim()
QuestionMatch(line) ==
  LET d == SkipWhile(line, 1, Digits)
  IN  IF d > 1 /\ At(line, d) = "." /\ d < Len(line)
        THEN [found |-> TRUE, text |-> Trim(SubSeq(line, d + 1, Len(line)))]
        ELSE [found |-> FALSE, text |-> <<>>]

RECURSIVE ScanQuestions(_, _, _)
ScanQuestions(lines, i, questions) ==
  IF i > Len(lines) THEN questions
  ELSE IF QuestionMatch(lines[i]).found
    THEN ScanQuestions(lines, i + 1, Append(questions, QuestionMatch(lines[i]).text))
  ELSE ScanQuestions(lines, i + 1, questions)

ParseQuestions(response) ==
  Returned(StringList(ScanQuestions(SplitLines(response), 1, <<>>)))


\* ------------------------------------------------------------------ summary parser
\* parseInt of a run of digits.
RECURSIVE DigitsValue(_)
DigitValue == ("0" :> 0) @@ ("1" :> 1) @@ ("2" :> 2) @@ ("3" :> 3) @@ ("4" :> 4) @@
              ("5" :> 5) @@ ("6" :> 6) @@ ("7" :> 7) @@ ("8" :> 8) @@ ("9" :> 9)
DigitsValue(s) ==
  IF s = <<>> THEN 0
  ELSE 10 * DigitsValue(SubSeq(s, 1, Len(s) - 1)) + DigitValue[s[Len(s)]]

\* line.match(/(\d+)/): the first run of digits.
FirstNumber(line) ==
  LET hits == {i \in 1..Len(line) : line[i] \in Digits}
      first == CHOOSE i \in hits : \A j \in hits : i <= j
  IN  IF hits = {} THEN [found |-> FALSE, value |-> 0]
      ELSE [found |-> TRUE,
            value |-> DigitsValue(SubSeq(line, first, SkipWhile(line, first, Digits) - 1))]

\* line.replace(/^\d+\.\s*/, '').replace(/^[<bullet>-]\s*/, '')
StripNumber(line) ==
  IF NumberedHeading(line)
    THEN SubSeq(line, SkipWhile(line, SkipWhile(line, 1, Digits) + 1, Whitespace), Len(line))
    ELSE line
StripBullet(line) ==
  IF At(line, 1) \in {BulletChar, "-"}
    THEN SubSeq(line, SkipWhile(line, 2, Whitespace), Len(line))
    ELSE line

\* The for loop of parseSummaryResponse from line i on; st holds its locals.
RECURSIVE ScanSummary(_, _, _)
ScanSummary(lines, i, st) ==
  IF i > Len(lines) THEN st
  ELSE LET line == lines[i]
           lower == ToLowerCase(line)
       IN  IF Includes(lower, N_keyPoints) \/ Includes(lower, N_mainPoints)
             THEN ScanSummary(lines, i + 1, [st EXCEPT !.section = "keypoints"])
           ELSE IF Includes(lower, N_confidence)
             THEN ScanSummary(lines, i + 1,
                    IF FirstNumber(line).found
                      THEN [st EXCEPT !.confidence = FirstNumber(line).value]
                      ELSE st)
           ELSE IF st.section = "summary"
             THEN ScanSummary(lines, i + 1, [st EXCEPT !.summary = @ \o line \o <<" ">>])
           ELSE IF NumberedHeading(line) \/ At(line, 1) \in {BulletChar, "-"}
             THEN ScanSummary(lines, i + 1,
                    [st EXCEPT !.keyPoints = Append(@, StripBullet(StripNumber(line)))])
           ELSE ScanSummary(lines, i + 1, st)

ParseSummaryResponse(response) ==
  LET lines == SelectSeq(SplitLines(response), LAMBDA line : Trim(line) # <<>>)
      st == ScanSummary(lines, 1,
              [summary |-> <<>>, keyPoints |-> <<>>, confidence |-> 8, section |-> "summary"])
  IN  Returned([summary |-> Trim(st.summary),
                keyPoints |-> st.keyPoints,
                wordCount |-> Cardinality({i \in 1..Len(st.summary) : st.summary[i] = " "}) + 1,
                confidence |-> Min(10, Max(1, st.confidence))])


\* ------------------------------------------------------------------ analyzers
MaxFragments == 3    \* fragments in one provider response

Providers == {"openai", "groq", "huggingface"}
InsightOps == {"extractKeywords", "analyzeInsights", "generateQuestions"}
SummaryOps == {"summarizeDocument", "summarizeChunks", "generateAbstract"}
AnalysisOps == InsightOps \cup SummaryOps

\* Pieces of provider output; a response is a concatenation of a few of them.
Fragments ==
  { <<"{">>,
    <<"}">>,
    <<"\n">>,
    <<"{", "\"">> \o N_keywords \o <<"\"", ":", "[", "\"", "a", "\"", "]", "}">>,
    <<"{", "\"">> \o N_sentiment \o <<"\"", ":", "\"", "s", "a", "d", "\"", "}">>,
    <<"K", "e", "y", "w", "o", "r", "d", "s", ":", " ">>,
    <<"1", ".", " ", "f", "o", "o">>,
    <<"-", " ", "b", "a", "r">> }

RECURSIVE ResponsesOf(_)
ResponsesOf(n) ==
  IF n = 0 THEN {<<>>}
  ELSE ResponsesOf(n - 1) \cup {r \o f : r \in ResponsesOf(n - 1), f \in Fragments}

Responses == ResponsesOf(MaxFragments)

AnalyzeIdle ==
  /\ apiKeys = {}
  /\ llm = "none"
  /\ aop = "none"
  /\ apc = "idle"
  /\ failure = "none"
  /\ responseText = <<>>
  /\ parserThrew = FALSE
  /\ outcome = "none"
  /\ opResult = JUndefined

\* ModelManager.getLLM: the cached client, else Groq, else OpenAI, else throw.
GetLLM ==
  IF llm # "none" THEN [threw |-> FALSE, llm |-> llm]
  ELSE IF "groq" \in apiKeys THEN [threw |-> FALSE, llm |-> "groq"]
  ELSE IF "openai" \in apiKeys THEN [threw |-> FALSE, llm |-> "openai"]
  ELSE [threw |-> TRUE, llm |-> "none"]

EmptyKeywords ==
  [keywords |-> JArr(<<>>), entities |-> JArr(<<>>),
   topics |-> JArr(<<>>), concepts |-> JArr(<<>>)]

Resolved(v) == [outcome |-> "resolved", value |-> v]
Rejected == [outcome |-> "rejected", value |-> JUndefined]

\* Catch blocks that rethrow, as SummaryAnalyzer's do.
CatchRethrows(op) == Rejected

\* The catch block of each operation, run when getLLM, llm.invoke or the
\* code after it throws.
Catch(op) ==
  IF op = "extractKeywords" THEN Resolved(EmptyKeywords)
  ELSE IF op = "analyzeInsights" THEN Resolved(DefaultInsights)
  ELSE IF op = "generateQuestions" THEN Resolved(JArr(<<>>))
  ELSE Rejected

\* The parser each operation applies to the response text.
ParseFor(op, text) ==
  IF op = "extractKeywords" THEN ParseKeywordResponse(text)
  ELSE IF op = "analyzeInsights" THEN ParseInsightResponse(text)
  ELSE IF op = "generateQuestions" THEN ParseQuestions(text)
  ELSE IF op = "generateAbstract" THEN Returned(Trim(text))
  ELSE ParseSummaryResponse(text)

InitAnalyze ==
  /\ content = <<>>
  /\ chunkSize = 0
  /\ chunkOverlap = 0
  /\ pc = "idle"
  /\ documentId = 0
  /\ startIndex = 0
  /\ chunkIndex = 0
  /\ chunks = <<>>
  /\ uuidCount = 0
  /\ results = <<>>
  /\ apiKeys \in SUBSET Providers
  /\ llm = "none"
  /\ aop = "none"
  /\ apc = "idle"
  /\ failure = "none"
  /\ responseText = <<>>
  /\ parserThrew = FALSE
  /\ outcome = "none"
  /\ opResult = JUndefined
  /\ PureIdle

\* An analyzer operation is called and runs to its await: getLLM inside the
\* try block, then llm.invoke is issued. A throwing getLLM goes to the catch.
AnalyzeCall(op) ==
  /\ apc = "idle"
  /\ aop' = op
  /\ responseText' = <<>>
  /\ parserThrew' = FALSE
  /\ IF GetLLM.threw
       THEN /\ failure' = "noLLM"
            /\ apc' = "settled"
            /\ outcome' = Catch(op).outcome
            /\ opResult' = Catch(op).value
            /\ llm' = llm
       ELSE /\ failure' = "none"
            /\ apc' = "invoking"
            /\ outcome' = "none"
            /\ opResult' = JUndefined
            /\ llm' = GetLLM.llm
  /\ UNCHANGED <<chunkVars, pureVars, apiKeys>>

\* llm.invoke resolves with text: the operation parses it and returns. An
\* exception from the parser is inside the try block and goes to the catch.
ProviderResolves ==
  /\ apc = "invoking"
  /\ \E text \in Responses :
       LET parsed == ParseFor(aop, text)
       IN  /\ responseText' = text
           /\ parserThrew' = parsed.threw
           /\ IF parsed.threw
                THEN /\ outcome' = Catch(aop).outcome
                     /\ opResult' = Catch(aop).value
                ELSE /\ outcome' = "resolved"
                     /\ opResult' = parsed.value
  /\ apc' = "settled"
  /\ UNCHANGED <<chunkVars, pureVars, apiKeys, llm, aop, failure>>

\* llm.invoke rejects (network, authentication, rate limit).
ProviderRejects ==
  /\ apc = "invoking"
  /\ failure' = "invokeRejected"
  /\ outcome' = Catch(aop).outcome
  /\ opResult' = Catch(aop).value
  /\ apc' = "settled"
  /\ UNCHANGED <<chunkVars, pureVars, apiKeys, llm, aop, responseText, parserThrew>>

\* The caller has taken the settled promise; the analyzer is free again.
AnalyzeDone ==
  /\ apc = "settled"
  /\ apc' = "idle"
  /\ aop' = "none"
  /\ failure' = "none"
  /\ responseText' = <<>>
  /\ parserThrew' = FALSE
  /\ outcome' = "none"
  /\ opResult' = JUndefined
  /\ UNCHANGED <<chunkVars, pureVars, apiKeys, llm>>

NextAnalyze ==
  \/ \E op \in AnalysisOps : AnalyzeCall(op)
  \/ ProviderResolves
  \/ ProviderRejects
  \/ AnalyzeDone

SpecAnalyze == InitAnalyze /\ [][NextAnalyze]_vars

\* ------------------------------------------------------------------ parsers on their own
MaxLines == 3        \* lines in one provider text handed to a parser

L_KW == <<"K", "e", "y", "w", "o", "r", "d", "s", ":">>
L_ENT == <<"E", "n", "t", "i", "t", "i", "e", "s", ":">>
L_FOO == <<"1", ".", " ", "f", "o", "o">>
L_BAR == <<"-", " ", "b", "a", "r">>
L_TOPICS == <<"2", ".", " ", "T", "o", "p", "i", "c", "s">>
L_JSONKW == <<"{", "\"", "k", "e", "y", "w", "o", "r", "d", "s", "\"", ":", "[", "\"", "a", "\"", ",", "\"", "b", "\"", "]", "}">>
L_JSONFALSY == <<"{", "\"", "s", "e", "n", "t", "i", "m", "e", "n", "t", "\"", ":", "\"", "p", "o", "s", "i", "t", "i", "v", "e", "\"", ",", "\"", "k", "e", "y", "w", "o", "r", "d", "s", "\"", ":", "n", "u", "l", "l", ",", "\"", "r", "e", "a", "d", "a", "b", "i", "l", "i", "t", "y", "S", "c", "o", "r", "e", "\"", ":", "0", "}">>

\* Lines of provider output; a text is a few of them joined by "\n".
ProviderLines ==
  { <<>>,
    L_KW,
    L_ENT,
    L_FOO,
    L_BAR,
    L_TOPICS,
    L_JSONKW,
    L_JSONFALSY }

RECURSIVE TextsOf(_)
TextsOf(n) ==
  IF n = 1 THEN ProviderLines
  ELSE TextsOf(n - 1) \cup {t \o <<"\n">> \o l : t \in TextsOf(n - 1), l \in ProviderLines}

ParserTexts == TextsOf(MaxLines)

Parsers == {"parseKeywordResponse", "parseInsightResponse", "parseQuestions"}

ChunkerIdle ==
  /\ content = <<>>
  /\ chunkSize = 0
  /\ chunkOverlap = 0
  /\ pc = "idle"
  /\ documentId = 0
  /\ startIndex = 0
  /\ chunkIndex = 0
  /\ chunks = <<>>
  /\ uuidCount = 0
  /\ results = <<>>

InitParse ==
  /\ ChunkerIdle
  /\ AnalyzeIdle
  /\ SearchIdle
  /\ InsightIdle
  /\ RestIdle
  /\ parseInput \in ParserTexts
  /\ parseFn = "none"
  /\ parseOutput = <<>>

\* One call of a private parser of InsightAnalyzer on the text.
ApplyParser(fn) ==
  /\ parseFn = "none"
  /\ parseFn' = fn
  /\ parseOutput' = IF fn = "parseKeywordResponse" THEN ParseKeywordResponse(parseInput)
                    ELSE IF fn = "parseInsightResponse" THEN ParseInsightResponse(parseInput)
                    ELSE ParseQuestions(parseInput)
  /\ UNCHANGED <<chunkVars, analyzeVars, parseInput, searchVars, insightVars, restVars>>

NextParse == \E fn \in Parsers : ApplyParser(fn)

SpecParse == InitParse /\ [][NextParse]_vars

\* ------------------------------------------------------------------ similarity search
\* InsightAnalyzer.findSimilarConcepts.
MaxQueryLen == 3
MaxSearchChunks == 6
TopK == 5

QueryAlphabet == {"A", " ", "\t", ".", "("}
Queries == SeqsUpTo(QueryAlphabet, MaxQueryLen)

ChunkTexts == {<<"A", "b", " ", "a">>, <<"b">>}
ChunkLists == SeqsUpTo(ChunkTexts, MaxSearchChunks)

ExampleQuery == <<"c", "a", "t", " ", "d", "o", "g">>
ExampleChunks ==
  << <<"t", "h", "e", " ", "c", "a", "t", " ", "s", "a", "t">>,
     <<"t", "h", "e", " ", "d", "o", "g", " ", "r", "a", "n">>,
     <<"b", "i", "r", "d", "s", " ", "f", "l", "y">> >>

SearchInputs == (Queries \X ChunkLists) \cup {<<ExampleQuery, ExampleChunks>>}

\* Chunks of one document in document order, as createChunks numbers them.
DocumentChunks(contents) ==
  [i \in 1..Len(contents) |-> [index |-> i - 1, content |-> contents[i]]]

\* String.prototype.split(' ')
RECURSIVE SplitSpaces(_)
SplitSpaces(s) ==
  LET breaks == {i \in 1..Len(s) : s[i] = " "}
  IN  IF breaks = {} THEN <<s>>
      ELSE LET b == CHOOSE i \in breaks : \A j \in breaks : i <= j
           IN  <<SubSeq(s, 1, b - 1)>> \o SplitSpaces(SubSeq(s, b + 1, Len(s)))

\* new RegExp(word, 'g') with word taken as a pattern: '(' opens a group and,
\* with no ')' in the alphabet, the constructor throws SyntaxError.
RegExpThrows(word) == \E i \in 1..Len(word) : word[i] = "("

\* The pattern matches at position i: '.' stands for any character but a line
\* terminator, every other character of the alphabet for itself.
MatchesAt(text, i, word) ==
  /\ i + Len(word) - 1 <= Len(text)
  /\ \A j \in 1..Len(word) :
       IF word[j] = "." THEN text[i + j - 1] # "\n" ELSE text[i + j - 1] = word[j]

\* (text.match(new RegExp(word, 'g')) || []).length: the matches are taken
\* left to right without overlap; the empty pattern matches at every position,
\* the end included.
RECURSIVE MatchCount(_, _, _)
MatchCount(text, word, from) ==
  IF word = <<>> THEN Len(text) + 1
  ELSE LET hits == {i \in from..Len(text) : MatchesAt(text, i, word)}
           first == CHOOSE i \in hits : \A j \in hits : i <= j
       IN  IF hits = {} THEN 0
           ELSE 1 + MatchCount(text, word, first + Len(word))

\* queryWords.reduce((acc, word) => acc + count, 0) from word k on.
RECURSIVE Score(_, _, _)
Score(text, queryWords, k) ==
  IF k > Len(queryWords) THEN 0
  ELSE MatchCount(text, queryWords[k], 1) + Score(text, queryWords, k + 1)

FilterPositive(scored) == SelectSeq(scored, LAMBDA item : item.score > 0)

\* A comparator with the order reversed.
CompareAscending(a, b) == a.score - b.score

\* The comparator (a, b) => b.score - a.score
Compare(a, b) == b.score - a.score

\* Array.prototype.sort with that comparator: stable, so an item goes after
\* every earlier item that does not compare greater than it.
InsertSorted(sorted, item) ==
  LET later == {i \in 1..Len(sorted) : Compare(sorted[i], item) > 0}
      at == IF later = {} THEN Len(sorted) + 1
            ELSE CHOOSE i \in later : \A j \in later : i <= j
  IN  SubSeq(sorted, 1, at - 1) \o <<item>> \o SubSeq(sorted, at, Len(sorted))

RECURSIVE SortScored(_)
SortScored(scored) ==
  IF Len(scored) <= 1 THEN scored
  ELSE InsertSorted(SortScored(SubSeq(scored, 1, Len(scored) - 1)), scored[Len(scored)])

InitSearch ==
  /\ ChunkerIdle
  /\ AnalyzeIdle
  /\ ParseIdle
  /\ InsightIdle
  /\ RestIdle
  /\ \E input \in SearchInputs :
       /\ query = input[1]
       /\ searchChunks = DocumentChunks(input[2])
  /\ searchScores = <<>>
  /\ searchOutcome = "none"
  /\ searchResult = <<>>

\* One call of findSimilarConcepts. The function has no await: it runs to its
\* return, or to the first exception, which rejects the promise.
FindSimilarConcepts ==
  /\ searchOutcome = "none"
  /\ LET queryWords == SplitSpaces(ToLowerCase(query))
         throws == /\ searchChunks # <<>>
                   /\ \E k \in 1..Len(queryWords) : RegExpThrows(queryWords[k])
         scored == [i \in 1..Len(searchChunks) |->
                      [chunk |-> searchChunks[i],
                       score |-> Score(ToLowerCase(searchChunks[i].content), queryWords, 1)]]
         top == Slice(SortScored(FilterPositive(scored)), 0, TopK)
     IN  IF throws
           THEN /\ searchOutcome' = "rejected"
                /\ searchScores' = <<>>
                /\ searchResult' = <<>>
           ELSE /\ searchOutcome' = "resolved"
                /\ searchScores' = [i \in 1..Len(scored) |-> scored[i].score]
                /\ searchResult' = [i \in 1..Len(top) |-> top[i].chunk]
  /\ UNCHANGED <<chunkVars, analyzeVars, parseVars, insightVars, restVars, query, searchChunks>>

NextSearch == FindSimilarConcepts

SpecSearch == InitSearch /\ [][NextSearch]_vars

\* ------------------------------------------------------------------ document insights
\* BaseProcessor.generateInsights and detectLanguage.
MaxEnglish == 2
MaxOther == 9
WordsPerMinute == 200

EnglishWords ==
  {<<"t", "h", "e">>,
   <<"a", "n", "d">>,
   <<"o", "r">>,
   <<"b", "u", "t">>,
   <<"i", "n">>,
   <<"o", "n">>,
   <<"a", "t">>,
   <<"t", "o">>,
   <<"f", "o", "r">>,
   <<"o", "f">>,
   <<"w", "i", "t", "h">>,
   <<"b", "y">>}

\* Sample words: two of the English set, one of them capitalised, and one
\* word outside the set that has a member of the set inside it.
EnglishSamples == << <<"T", "h", "e">>, <<"o", "r">> >>
OtherWord == <<"x", "o", "r">>

Leads == {<<>>, <<" ">>}
Trails == {<<>>, <<"\n">>}
Separators == {<<" ">>, <<"\n", "\t">>}

\* The sizes of the texts: a few words, and texts around one minute of reading.
OtherCounts == (0..MaxOther) \cup {WordsPerMinute, WordsPerMinute + 1}

\* e words of the English set followed by o other words.
WordList(e, o) ==
  [k \in 1..(e + o) |-> IF k <= e THEN EnglishSamples[(k % 2) + 1] ELSE OtherWord]

\* Array.prototype.join, by halves.
RECURSIVE Join(_, _)
Join(words, sep) ==
  IF words = <<>> THEN <<>>
  ELSE IF Len(words) = 1 THEN words[1]
  ELSE LET half == Len(words) \div 2
       IN  Join(SubSeq(words, 1, half), sep) \o sep
             \o Join(SubSeq(words, half + 1, Len(words)), sep)

InsightTexts ==
  {lead \o Join(WordList(e, o), sep) \o trail :
     lead \in Leads, trail \in Trails, sep \in Separators,
     e \in 0..MaxEnglish, o \in OtherCounts}

\* String.prototype.split(/\s+/): every run of whitespace is one separator.
\* An element begins at position 1 and after the end of each run, and extends
\* to the next whitespace; so a text that begins or ends with whitespace gets
\* an empty first or last element, and "" splits into [""].
ElementStarts(s) ==
  {1} \cup {j + 1 : j \in {k \in 1..Len(s) :
                             s[k] \in Whitespace /\ (k = Len(s) \/ s[k + 1] \notin Whitespace)}}

ElementAt(s, i) ==
  LET stops == {j \in i..Len(s) : s[j] \in Whitespace}
  IN  IF stops = {} THEN SubSeq(s, i, Len(s))
      ELSE SubSeq(s, i, (CHOOSE j \in stops : \A k \in stops : j <= k) - 1)

\* The elements that begin in lo..hi, in order.
RECURSIVE ElementsIn(_, _, _, _)
ElementsIn(s, starts, lo, hi) ==
  IF lo > hi THEN <<>>
  ELSE IF lo = hi THEN (IF lo \in starts THEN <<ElementAt(s, lo)>> ELSE <<>>)
  ELSE LET mid == (lo + hi) \div 2
       IN  ElementsIn(s, starts, lo, mid) \o ElementsIn(s, starts, mid + 1, hi)

SplitWhitespace(s) == ElementsIn(s, ElementStarts(s), 1, Len(s) + 1)

\* Reading time rounded down.
ReadingTimeFloor(wordCount) == wordCount \div WordsPerMinute

\* Math.ceil(wordCount / 200)
ReadingTime(wordCount) == (wordCount + WordsPerMinute - 1) \div WordsPerMinute

\* detectLanguage: the split is not filtered, so empty elements count in
\* words.length. englishCount > words.length * 0.1 is decided in integers:
\* the double product is never below the exact tenth, and never reaches the
\* next integer.
DetectLanguage(text) ==
  LET words == SplitWhitespace(ToLowerCase(text))
      englishCount == Len(SelectSeq(words, LAMBDA word : word \in EnglishWords))
  IN  IF 10 * englishCount > Len(words) THEN "english" ELSE "unknown"

InitInsights ==
  /\ ChunkerIdle
  /\ AnalyzeIdle
  /\ ParseIdle
  /\ SearchIdle
  /\ RestIdle
  /\ insightText \in InsightTexts
  /\ insightPc = "idle"
  /\ insights = <<>>

\* One call of generateInsights(content).
GenerateInsights ==
  /\ insightPc = "idle"
  /\ LET words == SelectSeq(SplitWhitespace(insightText), LAMBDA word : Len(word) > 0)
         wordCount == Len(words)
     IN  insights' = [wordCount |-> wordCount,
                      estimatedReadingTime |-> ReadingTime(wordCount),
                      language |-> DetectLanguage(insightText)]
  /\ insightPc' = "returned"
  /\ UNCHANGED <<chunkVars, analyzeVars, parseVars, searchVars, restVars, insightText>>

NextInsights == GenerateInsights

SpecInsights == InitInsights /\ [][NextInsights]_vars

\* ------------------------------------------------------------------ system operations
\* DocumentIntelligenceSystem.initialize, analyzeDocument and compareDocuments,
\* the analyzer calls they make, and the start of the web server.
MaxTasks == 2

StoredDocs == {1, 2}
MissingDoc == 0

\* validateConfig
ValidateConfig == apiKeys # {}

AnalyzeSteps == <<"summarizeDocument", "extractKeywords", "analyzeInsights",
                  "generateQuestions">>
DirectOps == {"extractKeywords", "analyzeInsights", "generateQuestions",
              "summarizeDocument", "generateAbstract"}

\* Operations whose parser copies the provider's JSON values unchecked.
CopiesValues(op) == op \in {"extractKeywords", "analyzeInsights"}

\* An analyzer operation up to its await: getLLM inside the try block, then
\* llm.invoke. With no client the catch block settles the call at once.
\* settled numbers the provider's answers in the order they arrive.
AnalyzerCall(op, doc, step, client) ==
  IF client = "none"
    THEN [op |-> op, doc |-> doc, step |-> step, invoked |-> 0, settled |-> 0,
          provider |-> "none", state |-> Catch(op).outcome, typed |-> TRUE]
    ELSE [op |-> op, doc |-> doc, step |-> step, invoked |-> 1, settled |-> 0,
          provider |-> "pending", state |-> "pending", typed |-> TRUE]

\* An analyzer operation that asks the provider again when the call failed.
AnalyzerSettleRetry(entry, how) ==
  IF how = "reject" /\ entry.invoked < 2
    THEN [entry EXCEPT !.invoked = 2]
  ELSE IF how = "reject"
    THEN [entry EXCEPT !.provider = how, !.state = Catch(entry.op).outcome]
  ELSE [entry EXCEPT !.provider = how, !.state = "resolved", !.typed = (how = "text")]

\* The rest of the operation once llm.invoke has settled: the parsed result,
\* or the catch block.
AnalyzerSettle(entry, how) ==
  IF how = "reject"
    THEN [entry EXCEPT !.provider = how, !.state = Catch(entry.op).outcome]
  ELSE [entry EXCEPT !.provider = how, !.state = "resolved", !.typed = (how = "text")]

\* An analyzeDocument that goes on to the next step after a call rejected.
RECURSIVE RunAnalyzeKeepsGoing(_, _, _, _)
RunAnalyzeKeepsGoing(t, log, k, client) ==
  IF k > Len(AnalyzeSteps) THEN [task |-> [t EXCEPT !.outcome = "resolved"], log |-> log]
  ELSE LET entry == AnalyzerCall(AnalyzeSteps[k], t.docs[1], k, client)
           next == Append(log, entry)
       IN  IF entry.state = "pending" THEN [task |-> [t EXCEPT !.step = k], log |-> next]
           ELSE RunAnalyzeKeepsGoing(t, next, k + 1, client)

\* analyzeDocument from step k on, until a call is left pending, a call
\* rejects or a display routine throws (both end in the catch block), or the
\* last step is done.
RECURSIVE RunAnalyze(_, _, _, _)
RunAnalyze(t, log, k, client) ==
  IF k > Len(AnalyzeSteps) THEN [task |-> [t EXCEPT !.outcome = "resolved"], log |-> log]
  ELSE LET entry == AnalyzerCall(AnalyzeSteps[k], t.docs[1], k, client)
           next == Append(log, entry)
       IN  IF entry.state = "pending" THEN [task |-> [t EXCEPT !.step = k], log |-> next]
           ELSE IF entry.state = "rejected"
             THEN [task |-> [t EXCEPT !.step = k, !.outcome = "resolved", !.failed = TRUE],
                   log |-> next]
           ELSE RunAnalyze(t, next, k + 1, client)

\* A pair of which only the first call is made before the await.
ComparePairOneByOne(t, log, k, client) ==
  LET op == IF k = 1 THEN "summarizeDocument" ELSE "analyzeInsights"
      one == Append(log, AnalyzerCall(op, t.docs[1], k, client))
  IN  IF one[Len(one)].state = "rejected"
        THEN [task |-> [t EXCEPT !.step = k, !.outcome = "resolved", !.failed = TRUE],
              log |-> one]
      ELSE [task |-> [t EXCEPT !.step = k], log |-> one]

\* Promise.all over the two calls of a pair, both made before the await.
ComparePair(t, log, k, client) ==
  LET op == IF k = 1 THEN "summarizeDocument" ELSE "analyzeInsights"
      both == log \o <<AnalyzerCall(op, t.docs[1], k, client),
                       AnalyzerCall(op, t.docs[2], k, client)>>
      states == {both[i].state : i \in (Len(log) + 1)..(Len(log) + 2)}
  IN  IF "rejected" \in states
        THEN [task |-> [t EXCEPT !.step = k, !.outcome = "resolved", !.failed = TRUE],
              log |-> both]
      ELSE [task |-> [t EXCEPT !.step = k], log |-> both]

\* compareDocuments after the calls of step k have all resolved.
RECURSIVE RunCompare(_, _, _, _)
RunCompare(t, log, k, client) ==
  LET pair == {i \in 1..Len(log) : log[i].step = k}
  IN  IF \E i \in pair : log[i].state = "pending" THEN [task |-> t, log |-> log]
      ELSE IF k = 1
        THEN LET r == ComparePair(t, log, 2, client)
             IN  IF r.task.outcome = "pending" THEN RunCompare(r.task, r.log, 2, client)
                 ELSE r
      ELSE IF \E i \in pair : ~log[i].typed
        THEN [task |-> [t EXCEPT !.outcome = "resolved", !.failed = TRUE], log |-> log]
      ELSE [task |-> [t EXCEPT !.outcome = "resolved", !.compared = TRUE], log |-> log]

\* repeat: the operation before it was the same request and reached the
\* provider.
NewTask(kind, docs) ==
  [kind |-> kind, docs |-> docs, step |-> 0, outcome |-> "pending",
   failed |-> FALSE, compared |-> FALSE, taken |-> FALSE,
   repeat |-> /\ task.kind = kind
              /\ task.docs = docs
              /\ \E i \in 1..Len(opLog) : opLog[i].invoked > 0]

InitSystem ==
  /\ ChunkerIdle
  /\ apiKeys \in SUBSET Providers
  /\ llm = "none"
  /\ aop = "none"
  /\ apc = "idle"
  /\ failure = "none"
  /\ responseText = <<>>
  /\ parserThrew = FALSE
  /\ outcome = "none"
  /\ opResult = JUndefined
  /\ ParseIdle
  /\ SearchIdle
  /\ InsightIdle
  /\ SystemIdle
  /\ StoreIdle

sysFrame == <<chunkVars, apiKeys, aop, apc, failure, responseText, parserThrew, outcome,
              opResult, parseVars, searchVars, insightVars, storeVars>>

\* initialize(): validateConfig, then testConnection up to its await. A throwing getLLM is caught inside testConnection, which then
\* resolves to false.
Initialize ==
  /\ initPc = "notStarted"
  /\ IF ~ValidateConfig
       THEN /\ initPc' = "done"
            /\ initResult' = "false"
            /\ UNCHANGED <<connTest, llm>>
       ELSE IF GetLLM.threw
         THEN /\ initPc' = "done"
              /\ connTest' = "failed"
              /\ initResult' = "true"
              /\ llm' = llm
         ELSE /\ initPc' = "testing"
              /\ llm' = GetLLM.llm
              /\ UNCHANGED <<connTest, initResult>>
  /\ UNCHANGED <<sysFrame, systemReady, listening, task, taskCount, opLog>>

\* An initialize() that reports the connection test.
ConnectionSettlesStrict(passed) ==
  /\ initPc = "testing"
  /\ connTest' = IF passed THEN "passed" ELSE "failed"
  /\ initResult' = IF passed THEN "true" ELSE "false"
  /\ initPc' = "done"
  /\ UNCHANGED <<sysFrame, llm, systemReady, listening, task, taskCount, opLog>>

\* The test invocation settles: a response that mentions 'ok' or 'test'
\* passes, any other response and a rejection fail; initialize() returns true
\* in each case.
ConnectionSettles(passed) ==
  /\ initPc = "testing"
  /\ connTest' = IF passed THEN "passed" ELSE "failed"
  /\ initResult' = "true"
  /\ initPc' = "done"
  /\ UNCHANGED <<sysFrame, llm, systemReady, listening, task, taskCount, opLog>>

\* The command line runs an operation only after initialize() returned true.
CanStart ==
  /\ initPc = "done"
  /\ initResult = "true"
  /\ task.taken
  /\ taskCount < MaxTasks

Started(r) ==
  /\ task' = r.task
  /\ opLog' = r.log
  /\ llm' = GetLLM.llm
  /\ taskCount' = taskCount + 1
  /\ UNCHANGED <<sysFrame, systemReady, initPc, connTest, initResult, listening>>

\* analyzeDocument(documentId) up to its first await, or to its return.
StartAnalyze(doc) ==
  /\ CanStart
  /\ Started(IF doc = MissingDoc
               THEN [task |-> [NewTask("analyzeDocument", <<doc>>) EXCEPT !.outcome = "resolved"],
                     log |-> <<>>]
               ELSE RunAnalyze(NewTask("analyzeDocument", <<doc>>), <<>>, 1, GetLLM.llm))

\* compareDocuments(id1, id2) up to its first await, or to its return.
StartCompare(d1, d2) ==
  /\ CanStart
  /\ Started(IF MissingDoc \in {d1, d2}
               THEN [task |-> [NewTask("compareDocuments", <<d1, d2>>) EXCEPT
                                 !.outcome = "resolved"],
                     log |-> <<>>]
               ELSE ComparePair(NewTask("compareDocuments", <<d1, d2>>), <<>>, 1, GetLLM.llm))

\* One analyzer operation called on its own.
StartOp(op, doc) ==
  /\ CanStart
  /\ LET entry == AnalyzerCall(op, doc, 1, GetLLM.llm)
     IN  Started([task |-> [NewTask(op, <<doc>>) EXCEPT !.step = 1, !.outcome = entry.state],
                  log |-> <<entry>>])

\* The provider settles invocation i: with usable text, with JSON whose values
\* have the wrong type, or by rejecting. The analyzer call finishes and the
\* operation that awaits it runs on to its next await or to its end.
ProviderSettles(i, how) ==
  /\ i \in 1..Len(opLog)
  /\ opLog[i].state = "pending"
  /\ how = "illTyped" => CopiesValues(opLog[i].op)
  /\ LET answered == Cardinality({j \in 1..Len(opLog) : opLog[j].settled > 0})
         entry == [AnalyzerSettle(opLog[i], how) EXCEPT !.settled = answered + 1]
         log == [opLog EXCEPT ![i] = entry]
         failed == [task EXCEPT !.outcome = "resolved", !.failed = TRUE]
         r == IF entry.state = "pending" \/ task.outcome # "pending"
                THEN [task |-> task, log |-> log]
              ELSE IF task.kind = "analyzeDocument"
                THEN IF entry.state = "rejected" \/ ~entry.typed
                       THEN [task |-> failed, log |-> log]
                     ELSE RunAnalyze(task, log, task.step + 1, llm)
              ELSE IF task.kind = "compareDocuments"
                THEN IF entry.state = "rejected" THEN [task |-> failed, log |-> log]
                     ELSE RunCompare(task, log, task.step, llm)
              ELSE [task |-> [task EXCEPT !.outcome = entry.state], log |-> log]
     IN  /\ task' = r.task
         /\ opLog' = r.log
  /\ UNCHANGED <<sysFrame, llm, systemReady, initPc, connTest, initResult, listening,
                 taskCount>>

\* The caller has taken the operation's settled promise.
TaskDone ==
  /\ ~task.taken
  /\ task.outcome # "pending"
  /\ task' = [task EXCEPT !.taken = TRUE]
  /\ UNCHANGED <<sysFrame, llm, systemReady, initPc, connTest, initResult, listening,
                 taskCount, opLog>>

NextSystem ==
  \/ Initialize
  \/ \E passed \in BOOLEAN : ConnectionSettles(passed)
  \/ \E doc \in StoredDocs \cup {MissingDoc} : StartAnalyze(doc)
  \/ \E d1, d2 \in StoredDocs \cup {MissingDoc} : StartCompare(d1, d2)
  \/ \E op \in DirectOps, doc \in StoredDocs : StartOp(op, doc)
  \/ \E i \in 1..Len(AnalyzeSteps), how \in {"text", "illTyped", "reject"} : ProviderSettles(i, how)
  \/ TaskDone

SpecSystem == InitSystem /\ [][NextSystem]_vars

\* ------------------------------------------------------------------ parser claims
KeywordFieldNames == {"keywords", "entities", "topics", "concepts"}
InsightFieldNames == {"sentiment", "topics", "complexity", "readabilityScore",
                      "keyInsights", "recommendations"}

\* The JSON key of each result field and the default the specification names.
FieldKey ==
  [keywords |-> N_keywords, entities |-> N_entities, topics |-> N_topics,
   concepts |-> N_concepts, sentiment |-> N_sentiment, complexity |-> N_complexity,
   readabilityScore |-> N_readabilityScore, keyInsights |-> N_keyInsights,
   recommendations |-> N_recommendations]
FieldDefault ==
  [keywords |-> JArr(<<>>), entities |-> JArr(<<>>), topics |-> JArr(<<>>),
   concepts |-> JArr(<<>>), sentiment |-> JStr(N_neutral), complexity |-> JStr(N_medium),
   readabilityScore |-> JNum(N_fifty), keyInsights |-> JArr(<<>>),
   recommendations |-> JArr(<<>>)]

FieldsOf(fn) ==
  IF fn = "parseKeywordResponse" THEN KeywordFieldNames ELSE InsightFieldNames

\* The parser was applied to a text whose brace span JSON.parse accepts.
ParsedJson ==
  /\ parseFn \in {"parseKeywordResponse", "parseInsightResponse"}
  /\ JsonMatch(parseInput).found
  /\ JSONParse(JsonMatch(parseInput).span).ok

ParsedObject == JSONParse(JsonMatch(parseInput).span).val

Present(obj, key) == \E i \in 1..Len(obj.members) : obj.members[i].k = key

\* null, false, 0 and "": the values JavaScript treats as false.
Falsy(v) ==
  \/ v.t = "literal" /\ v.s \in {LitNull, LitFalse}
  \/ v.t = "number" /\ \A i \in 1..Len(v.s) : v.s[i] \in {"0", "-", "."}
  \/ v.t = "string" /\ v.s = <<>>

\* C11 as stated: when the JSON object parses, each named field present in it
\* is returned with the provider's value and each missing field as its default.
C11_PresentFieldsReturned ==
  ParsedJson =>
    \A f \in FieldsOf(parseFn) :
      parseOutput.value[f] =
        IF Present(ParsedObject, FieldKey[f])
          THEN Property(ParsedObject, FieldKey[f])
          ELSE FieldDefault[f]

\* C11 amended: each named field present with a value other than null, false,
\* 0 or "" is returned with the provider's value; a missing field, and a field
\* present with one of those values, is returned as its default.
C11_TruthyFieldsReturned ==
  ParsedJson =>
    /\ ~parseOutput.threw
    /\ \A f \in FieldsOf(parseFn) :
         parseOutput.value[f] =
           IF Present(ParsedObject, FieldKey[f]) /\ ~Falsy(Property(ParsedObject, FieldKey[f]))
             THEN Property(ParsedObject, FieldKey[f])
             ELSE FieldDefault[f]

\* C11 witness: '{"keywords":["a","b"]}' gave keywords = ["a","b"] and the other
\* three lists empty.
C11_Witness ==
  /\ parseFn = "parseKeywordResponse"
  /\ parseInput = L_JSONKW
  /\ parseOutput.value.keywords = JArr(<<JStr(<<"a">>), JStr(<<"b">>)>>)
  /\ parseOutput.value.entities = JArr(<<>>)
  /\ parseOutput.value.topics = JArr(<<>>)
  /\ parseOutput.value.concepts = JArr(<<>>)

\* The first balanced {...} span of the text: from the first '{' to the first
\* later position where as many '}' as '{' have been seen.
BraceDepth(text, i, j) ==
  Cardinality({k \in i..j : text[k] = "{"}) - Cardinality({k \in i..j : text[k] = "}"})

FirstBalancedSpan(text) ==
  LET opens == {i \in 1..Len(text) : text[i] = "{"}
      first == CHOOSE i \in opens : \A j \in opens : i <= j
      closes == {j \in first..Len(text) : BraceDepth(text, first, j) = 0}
      last == CHOOSE i \in closes : \A j \in closes : i <= j
  IN  IF opens = {} THEN [found |-> FALSE, span |-> <<>>]
      ELSE IF closes = {} THEN [found |-> FALSE, span |-> <<>>]
      ELSE [found |-> TRUE, span |-> SubSeq(text, first, last)]

\* C12: whenever the first balanced {...} span of the provider text is a
\* well-formed JSON object, that object's fields are returned, whatever text
\* precedes or follows it, trailing text with '{' or '}' included.
C12_FirstBalancedSpanParsed ==
  (/\ parseFn \in {"parseKeywordResponse", "parseInsightResponse"}
   /\ FirstBalancedSpan(parseInput).found
   /\ JSONParse(FirstBalancedSpan(parseInput).span).ok) =>
    parseOutput.value =
      IF parseFn = "parseKeywordResponse"
        THEN KeywordFields(JSONParse(FirstBalancedSpan(parseInput).span).val)
        ELSE InsightFields(JSONParse(FirstBalancedSpan(parseInput).span).val)

\* A bullet or number prefix at the start of a line: a bullet character, or
\* digits followed by '.'; 0 when the line begins with neither.
ListPrefixLen(line) ==
  LET d == SkipWhile(line, 1, Digits)
  IN  IF At(line, 1) \in {BulletChar, "-"} THEN 1
      ELSE IF d > 1 /\ At(line, d) = "." THEN d
      ELSE 0

StripPrefix(line) == Trim(SubSeq(line, ListPrefixLen(line) + 1, Len(line)))

PrefixedLines(text) ==
  {l \in {Trim(SplitLines(text)[i]) : i \in 1..Len(SplitLines(text))} : ListPrefixLen(l) > 0}

\* C13: in the fallback parse of a keyword response without JSON, every item
\* returned for a field is the text of a line that begins with a bullet or
\* number prefix, with that prefix removed ('1. foo' gives 'foo').
C13_FallbackItemsStripped ==
  (parseFn = "parseKeywordResponse" /\ ~JsonMatch(parseInput).found) =>
    \A f \in KeywordFieldNames :
      \A i \in 1..Len(parseOutput.value[f].items) :
        parseOutput.value[f].items[i].s \in {StripPrefix(l) : l \in PrefixedLines(parseInput)}

\* The lines of a text that mention a field name, and the first terminator
\* after line h for field f: a blank line, or a numbered line that is the
\* heading of another field; Len + 1 when there is none.
HeadingLines(lines, f) ==
  {i \in 1..Len(lines) : Includes(ToLowerCase(lines[i]), ToLowerCase(FieldKey[f]))}

IsTerminator(line, f) ==
  \/ Trim(line) = <<>>
  \/ /\ ListPrefixLen(line) > 1
     /\ \E g \in KeywordFieldNames \ {f} : Includes(ToLowerCase(line), ToLowerCase(FieldKey[g]))

FirstTerminator(lines, h, f) ==
  LET terms == {j \in (h + 1)..Len(lines) : IsTerminator(lines[j], f)}
  IN  IF terms = {} THEN Len(lines) + 1
      ELSE CHOOSE j \in terms : \A k \in terms : j <= k

\* C14: in the fallback line scan a field's items come only from the lines
\* between the field's heading and the first following blank line or new
\* numbered heading; nothing at or after that terminator is added.
C14_StopsAtTerminator ==
  (parseFn = "parseKeywordResponse" /\ ~JsonMatch(parseInput).found) =>
    \A f \in KeywordFieldNames :
      LET lines == SplitLines(parseInput)
          heads == HeadingLines(lines, f)
          h == CHOOSE i \in heads : TRUE
      IN  Cardinality(heads) = 1 =>
            Len(parseOutput.value[f].items) <= FirstTerminator(lines, h, f) - h - 1

\* ------------------------------------------------------------------ analyzer claims
\* C8: for every provider response text parseKeywordResponse,
\* parseInsightResponse and parseQuestions return a structured result and never
\* throw; a failed JSON attempt is absorbed.
C8_ParsersNeverThrow ==
  (apc = "settled" /\ aop \in InsightOps /\ failure = "none") =>
    /\ ~parserThrew
    /\ outcome = "resolved"
    /\ aop = "extractKeywords" =>
         DOMAIN opResult = {"keywords", "entities", "topics", "concepts"}
    /\ aop = "analyzeInsights" =>
         DOMAIN opResult = {"sentiment", "topics", "complexity", "readabilityScore",
                            "keyInsights", "recommendations"}
    /\ aop = "generateQuestions" => opResult.t = "array"

\* C8 witness: a response whose brace span is not valid JSON was parsed and the
\* fallback result returned.
C8_Witness ==
  /\ apc = "settled"
  /\ aop = "extractKeywords"
  /\ failure = "none"
  /\ JsonMatch(responseText).found
  /\ ~JSONParse(JsonMatch(responseText).span).ok
  /\ outcome = "resolved"
  /\ opResult = KeywordFallback(responseText)

SentimentValues ==
  {<<"p", "o", "s", "i", "t", "i", "v", "e">>, <<"n", "e", "g", "a", "t", "i", "v", "e">>,
   N_neutral}
ComplexityValues == {<<"l", "o", "w">>, N_medium, <<"h", "i", "g", "h">>}

IsStringList(v) ==
  v.t = "array" /\ \A i \in 1..Len(v.items) : v.items[i].t = "string"

\* C15: for any provider output the bundle of analyzeInsights has sentiment in
\* {positive, negative, neutral}, complexity in {low, medium, high} and a
\* numeric readabilityScore, and the four lists of extractKeywords are lists of
\* strings.
C15_BundlesWellTyped ==
  (apc = "settled" /\ outcome = "resolved") =>
    /\ aop = "analyzeInsights" =>
         /\ opResult.sentiment.t = "string"
         /\ opResult.sentiment.s \in SentimentValues
         /\ opResult.complexity.t = "string"
         /\ opResult.complexity.s \in ComplexityValues
         /\ opResult.readabilityScore.t = "number"
    /\ aop = "extractKeywords" =>
         \A f \in KeywordFieldNames : IsStringList(opResult[f])

\* C9: when the provider call fails (llm.invoke rejects or no LLM can be
\* obtained) extractKeywords resolves to four empty lists, analyzeInsights to
\* the neutral / medium / 50 defaults with empty lists and generateQuestions to
\* []; none of the three rejects.
C9_InsightOpsDegrade ==
  (apc = "settled" /\ aop \in InsightOps /\ failure # "none") =>
    /\ outcome = "resolved"
    /\ aop = "extractKeywords" => opResult = EmptyKeywords
    /\ aop = "analyzeInsights" =>
         opResult = [sentiment |-> JStr(N_neutral), topics |-> JArr(<<>>),
                     complexity |-> JStr(N_medium), readabilityScore |-> JNum(N_fifty),
                     keyInsights |-> JArr(<<>>), recommendations |-> JArr(<<>>)]
    /\ aop = "generateQuestions" => opResult = JArr(<<>>)

\* C9 witness: analyzeInsights settled after llm.invoke rejected.
C9_Witness ==
  /\ apc = "settled"
  /\ aop = "analyzeInsights"
  /\ failure = "invokeRejected"
  /\ outcome = "resolved"

\* C10: on a provider failure every analysis operation, summarizeDocument,
\* summarizeChunks and generateAbstract included, resolves with an empty or
\* default result and never rejects.
C10_AllOpsDegrade ==
  (apc = "settled" /\ failure # "none") => outcome = "resolved"

\* ------------------------------------------------------------------ search claims
\* The non-empty tokens of a text split on whitespace, by the position where
\* each begins.
TokenStarts(s) ==
  {i \in 1..Len(s) : s[i] \notin Whitespace /\ (i = 1 \/ s[i - 1] \in Whitespace)}

TokenAt(s, i) == SubSeq(s, i, SkipWhile(s, i, {s[j] : j \in 1..Len(s)} \ Whitespace) - 1)

\* Occurrences of a token in a text as a literal substring, left to right.
RECURSIVE LiteralCount(_, _, _)
LiteralCount(text, token, from) ==
  LET hits == {i \in from..(Len(text) - Len(token) + 1) :
                 SubSeq(text, i, i + Len(token) - 1) = token}
      first == CHOOSE i \in hits : \A j \in hits : i <= j
  IN  IF hits = {} THEN 0
      ELSE 1 + LiteralCount(text, token, first + Len(token))

RECURSIVE SumOver(_, _)
SumOver(S, f) ==
  IF S = {} THEN 0
  ELSE LET x == CHOOSE y \in S : TRUE
       IN  f[x] + SumOver(S \ {x}, f)

LiteralScore(q, text) ==
  LET lq == ToLowerCase(q)
      starts == TokenStarts(lq)
  IN  SumOver(starts, [i \in starts |-> LiteralCount(ToLowerCase(text), TokenAt(lq, i), 1)])

\* C16: the score of every chunk is the sum, over the whitespace-separated
\* tokens of the query, of the case-insensitive literal substring occurrences
\* of the token in the chunk text. Stated for queries that begin and end with
\* a token, where splitting on whitespace leaves no empty token.
C16_ScoreIsLiteralCount ==
  (/\ searchOutcome = "resolved"
   /\ query # <<>>
   /\ query[1] \notin Whitespace
   /\ query[Len(query)] \notin Whitespace) =>
    \A i \in 1..Len(searchChunks) :
      searchScores[i] = LiteralScore(query, searchChunks[i].content)

\* Chunk i comes before chunk j in the ranking: higher score, or the same
\* score and earlier in the document.
RankedBefore(i, j) ==
  \/ searchScores[i] > searchScores[j]
  \/ searchScores[i] = searchScores[j] /\ i < j

\* C17: the result is exactly the chunks with score > 0, by descending score
\* with ties in original order, cut to the first 5; for the chunks 'the cat
\* sat', 'the dog ran', 'birds fly' and the query 'cat dog' it is the first two
\* chunks in that order.
C17_TopFiveByScore ==
  searchOutcome = "resolved" =>
    LET positive == {i \in 1..Len(searchChunks) : searchScores[i] > 0}
        at == [k \in 1..Len(searchResult) |-> searchResult[k].index + 1]
        chosen == {at[k] : k \in 1..Len(searchResult)}
    IN  /\ Len(searchResult) = Min(5, Cardinality(positive))
        /\ \A k \in 1..Len(searchResult) :
             at[k] \in positive /\ searchResult[k] = searchChunks[at[k]]
        /\ \A k, l \in 1..Len(searchResult) : k < l => RankedBefore(at[k], at[l])
        /\ \A i \in positive \ chosen : \A j \in chosen : RankedBefore(j, i)
        /\ (query = ExampleQuery /\ searchChunks = DocumentChunks(ExampleChunks)) =>
             searchResult = <<searchChunks[1], searchChunks[2]>>

\* C17 witness: more than five chunks scored above 0, and the five returned
\* hold a tie and two different scores, the first of them not the first chunk.
C17_Witness ==
  /\ searchOutcome = "resolved"
  /\ Cardinality({i \in 1..Len(searchChunks) : searchScores[i] > 0}) > 5
  /\ Len(searchResult) = 5
  /\ searchResult[1].index > 0
  /\ \E k, l \in 1..5 :
       searchScores[searchResult[k].index + 1] = searchScores[searchResult[l].index + 1] /\ k # l
  /\ \E k, l \in 1..5 :
       searchScores[searchResult[k].index + 1] > searchScores[searchResult[l].index + 1]

\* C18: findSimilarConcepts resolves for every query and every chunk list; no
\* query text makes it reject.
C18_SearchNeverRejects == searchOutcome # "rejected"

\* ------------------------------------------------------------------ insight claims
\* The least number of minutes that covers the words at 200 words a minute.
CoversWords(minutes, words) ==
  /\ 200 * minutes >= words
  /\ 200 * (minutes - 1) < words

\* C19: wordCount is the number of non-empty tokens of the text split on
\* whitespace and estimatedReadingTime is ceil(wordCount / 200); for the empty
\* string and for whitespace-only text both are 0.
C19_WordCountAndReadingTime ==
  insightPc = "returned" =>
    /\ insights.wordCount = Cardinality(TokenStarts(insightText))
    /\ CoversWords(insights.estimatedReadingTime, insights.wordCount)
    /\ (\A i \in 1..Len(insightText) : insightText[i] \in Whitespace) =>
         insights.wordCount = 0 /\ insights.estimatedReadingTime = 0

\* C19 witness: a text of more than 200 words, with whitespace before the
\* first and after the last, gets a reading time of 2.
C19_Witness ==
  /\ insightPc = "returned"
  /\ Len(insightText) > 0
  /\ insightText[1] \in Whitespace
  /\ insightText[Len(insightText)] \in Whitespace
  /\ insights.wordCount > 200
  /\ insights.estimatedReadingTime = 2

EnglishTokens(text) ==
  {i \in TokenStarts(text) : TokenAt(ToLowerCase(text), i) \in EnglishWords}

\* C20: language is 'english' exactly when more than 10% of the non-empty
\* whitespace-separated tokens, in lower case, are in the 12-word English set,
\* whatever whitespace leads, trails or separates them.
C20_EnglishAboveTenth ==
  insightPc = "returned" =>
    (insights.language = "english" <=>
       10 * Cardinality(EnglishTokens(insightText)) > Cardinality(TokenStarts(insightText)))

\* ------------------------------------------------------------------ system claims
\* A chat model client can be built from the configured keys.
HasChatKey == apiKeys \cap {"groq", "openai"} # {}

C22_PairFannedOut ==
  task.kind = "compareDocuments" =>
    /\ \A k \in {1, 2} : Cardinality({i \in 1..Len(opLog) : opLog[i].step = k}) \in {0, 2}
    /\ HasChatKey => \A i \in 1..Len(opLog) : opLog[i].invoked = 1
    /\ (/\ Len(opLog) = 4
        /\ \A i \in 1..4 : opLog[i].state = "resolved" /\ opLog[i].typed) => task.compared

\* C22 witness: a comparison produced after the second call of each pair was
\* answered before the first.
C22_Witness ==
  /\ task.kind = "compareDocuments"
  /\ task.compared
  /\ opLog[2].settled < opLog[1].settled
  /\ opLog[4].settled < opLog[3].settled

\* C27: analyzeDocument issues its provider calls in the order summary,
\* keywords, insights, questions, never with more than one outstanding, issues
\* a later step only after every earlier step returned a result, and itself
\* never rejects.
C27_AnalyzeInOrder ==
  task.kind = "analyzeDocument" =>
    /\ Len(opLog) <= 4
    /\ \A i \in 1..Len(opLog) :
         opLog[i].op = <<"summarizeDocument", "extractKeywords", "analyzeInsights",
                         "generateQuestions">>[i]
    /\ Cardinality({i \in 1..Len(opLog) : opLog[i].state = "pending"}) <= 1
    /\ \A i, j \in 1..Len(opLog) : i < j => opLog[i].state = "resolved"
    /\ task.outcome \in {"pending", "resolved"}

\* C27 witness: an analysis that ran its four steps although the provider
\* rejected the keyword call.
C27_Witness ==
  /\ task.kind = "analyzeDocument"
  /\ Len(opLog) = 4
  /\ opLog[2].provider = "reject"
  /\ task.outcome = "resolved"
  /\ ~task.failed

\* C25: every combination of API keys that validateConfig() accepts lets
\* getLLM() return a model client, so no analyzer call of a validated system
\* ends without a provider invocation.
C25_AcceptedKeysGiveClient ==
  ValidateConfig =>
    /\ ~GetLLM.threw
    /\ \A i \in 1..Len(opLog) : opLog[i].invoked >= 1

\* ------------------------------------------------------------------ chunking
\* uuidv4(): a fresh identifier on every draw.
Uuid(n) == n + 1

InitChunk ==
  /\ content \in SeqsUpTo(DocAlphabet, MaxLen)
  /\ chunkSize \in 0..MaxWindow
  /\ chunkOverlap \in 0..MaxWindow
  /\ pc = "idle"
  /\ documentId = 0
  /\ startIndex = 0
  /\ chunkIndex = 0
  /\ chunks = <<>>
  /\ uuidCount = 0
  /\ results = <<>>
  /\ AnalyzeIdle
  /\ PureIdle

\* A createChunks whose chunk counter survives from the previous call.
ProcessEnterKeepsIndex ==
  /\ pc = "idle"
  /\ Len(results) < MaxCalls
  /\ documentId' = Uuid(uuidCount)
  /\ uuidCount' = uuidCount + 1
  /\ startIndex' = 0
  /\ chunkIndex' = chunkIndex
  /\ chunks' = <<>>
  /\ pc' = "loop"
  /\ UNCHANGED <<content, chunkSize, chunkOverlap, results, analyzeVars, pureVars>>

\* TextProcessor.process up to the entry of createChunks: createDocument draws
\* the document id, createChunks initialises its locals.
ProcessEnter ==
  /\ pc = "idle"
  /\ Len(results) < MaxCalls
  /\ documentId' = Uuid(uuidCount)
  /\ uuidCount' = uuidCount + 1
  /\ startIndex' = 0
  /\ chunkIndex' = 0
  /\ chunks' = <<>>
  /\ pc' = "loop"
  /\ UNCHANGED <<content, chunkSize, chunkOverlap, results, analyzeVars, pureVars>>

\* One iteration of the while loop of createChunks. MaxChunks bounds how many
\* iterations of a run are recorded; the code has no such limit.
ChunkStep ==
  /\ pc = "loop"
  /\ startIndex < Len(content)
  /\ Len(chunks) < MaxChunks
  /\ LET endIndex == Min(startIndex + chunkSize, Len(content))
         chunk == [id |-> Uuid(uuidCount),
                   documentId |-> documentId,
                   content |-> Slice(content, startIndex, endIndex),
                   index |-> chunkIndex,
                   startChar |-> startIndex,
                   endChar |-> endIndex]
     IN  /\ chunks' = Append(chunks, chunk)
         /\ startIndex' = endIndex - chunkOverlap
         /\ chunkIndex' = chunkIndex + 1
  /\ uuidCount' = uuidCount + 1
  /\ UNCHANGED <<content, chunkSize, chunkOverlap, pc, documentId, results, analyzeVars, pureVars>>

\* The loop condition fails: createChunks returns its array to process.
ChunkReturn ==
  /\ pc = "loop"
  /\ ~(startIndex < Len(content))
  /\ results' = Append(results, chunks)
  /\ pc' = "idle"
  /\ UNCHANGED <<content, chunkSize, chunkOverlap, documentId, startIndex,
                 chunkIndex, chunks, uuidCount, analyzeVars, pureVars>>

NextChunk == ProcessEnter \/ ChunkStep \/ ChunkReturn

SpecChunk == InitChunk /\ [][NextChunk]_vars

\* ------------------------------------------------------------------ server and store
MaxRequests == 2     \* processFile calls and upload requests in one run
MaxFileLen == 2      \* longest file content, in characters
LightChunkLength == 1000

\* The contents a file is given: none, and the longest.
FileContents == {<<>>, [i \in 1..MaxFileLen |-> "a"]}

\* A file name: stem, unique suffix (0 when the name has none) and extension.
Name(stem, suffix, ext) == [stem |-> stem, suffix |-> suffix, ext |-> ext]
NoName == Name("none", 0, "")
Path(dir, name) == [dir |-> dir, name |-> name]
NoPath == Path("none", NoName)
Basename(p) == p.name
Extname(n) == n.ext

\* multer's filename callback: fieldname, '-', unique suffix, and the
\* extension of the client's name. The request number stands for the suffix.
TempName(i, original) == Name("document", i, Extname(original))
UploadPath(i, original) == Path("uploads", TempName(i, original))

\* Names a client gives its upload; the last one is spelt like the temporary
\* name of the first upload.
OriginalNames ==
  {Name("notes", 0, ".txt"), Name("notes", 0, ".pdf"), Name("document", 1, ".txt")}

\* The files on disk at the start, and the paths handed to processFile.
UserFiles ==
  (Path("docs", Name("notes", 0, ".txt")) :> <<"a", "a">>) @@
  (Path("docs", Name("paper", 0, ".pdf")) :> <<"a">>) @@
  (Path("docs", Name("notes", 0, ".xyz")) :> <<"a">>)
\* Names given to the lightweight server.
LightNames == {Name("notes", 0, ".txt"), Name("notes", 0, ".pdf")}

DirectPaths == DOMAIN UserFiles \cup {Path("docs", Name("missing", 0, ".txt"))}

TextExtensions == {".txt", ".md", ".markdown", ".text"}
PdfExtensions == {".pdf"}
LightExtensions == {".txt", ".md", ".markdown"}

\* ProcessorFactory.getProcessor: the first processor that supports the path.
GetProcessor(p) ==
  IF Extname(Basename(p)) \in TextExtensions THEN "text"
  ELSE IF Extname(Basename(p)) \in PdfExtensions THEN "pdf"
  ELSE "none"

\* The while loop of createChunks from startIndex on; ids are drawn from n on.
\* A run that records more than MaxChunks chunks is one that never leaves the
\* loop.
RECURSIVE ChunkLoop(_, _, _, _, _, _, _)
ChunkLoop(docId, text, size, overlap, start, acc, n) ==
  IF ~(start < Len(text)) THEN [hung |-> FALSE, chunks |-> acc]
  ELSE IF Len(acc) >= MaxChunks THEN [hung |-> TRUE, chunks |-> acc]
  ELSE LET endIndex == Min(start + size, Len(text))
           chunk == [id |-> Uuid(n),
                     documentId |-> docId,
                     content |-> Slice(text, start, endIndex),
                     index |-> Len(acc),
                     startChar |-> start,
                     endChar |-> endIndex]
       IN  ChunkLoop(docId, text, size, overlap, endIndex - overlap, Append(acc, chunk), n + 1)

CreateChunks(docId, text, size, overlap, n) == ChunkLoop(docId, text, size, overlap, 0, <<>>, n)

\* BaseProcessor.createDocument: chunkCount is absent (0 here) until process
\* sets it.
CreateDocument(p, text, n) ==
  [id |-> Uuid(n), content |-> text, filename |-> Basename(p),
   fileType |-> Extname(Basename(p)), size |-> Len(text), chunkCount |-> 0]

NoResult == [document |-> CreateDocument(NoPath, <<>>, 0), chunks |-> <<>>]
NoBody == [id |-> 0, filename |-> NoName, chunkCount |-> 0]
Undefined == 0

\* A process whose document keeps the metadata it had before chunking.
ProcessForgetsCount(p, text, n) ==
  LET document == CreateDocument(p, text, n)
      loop == CreateChunks(document.id, text, chunkSize, chunkOverlap, n + 1)
  IN  [hung |-> loop.hung,
       result |-> [document |-> document, chunks |-> loop.chunks],
       drawn |-> 1 + Len(loop.chunks)]

\* The synchronous part of TextProcessor.process / PDFProcessor.process once
\* the content is there: createDocument, createChunks, chunkCount.
Process(p, text, n) ==
  LET document == CreateDocument(p, text, n)
      loop == CreateChunks(document.id, text, chunkSize, chunkOverlap, n + 1)
  IN  [hung |-> loop.hung,
       result |-> [document |-> [document EXCEPT !.chunkCount = Len(loop.chunks)],
                   chunks |-> loop.chunks],
       drawn |-> 1 + Len(loop.chunks)]

\* Math.ceil(a / b) for a >= 0, b > 0.
CeilDiv(a, b) == (a + b - 1) \div b

\* A call of processFile (direct or from the upload handler) or a request to
\* the lightweight server, with the position it waits at.
Req(kind, p, original, at) ==
  [kind |-> kind, path |-> p, original |-> original, pc |-> at,
   buffer |-> <<>>, held |-> NoResult, result |-> "pending", added |-> Undefined,
   status |-> 0, body |-> NoBody]

\* The synchronous createChunks loop never returns: the process is stuck in it.
Hung == \E i \in 1..Len(reqs) : reqs[i].pc = "hung"

Without(f, k) == [x \in DOMAIN f \ {k} |-> f[x]]
EmptyMap == <<>>

ServerKeySets == {{}, {"huggingface"}, {"openai"}}

\* DEFAULT_CHUNK_SIZE and DEFAULT_CHUNK_OVERLAP of the environment.
StoreSettings == {<<1, 0>>, <<MaxFileLen, 1>>}

\* A process that has not touched the store: the files of the user on disk.
InitFiles(keySets) ==
  /\ content = <<>>
  /\ \E setting \in StoreSettings : chunkSize = setting[1] /\ chunkOverlap = setting[2]
  /\ pc = "idle"
  /\ documentId = 0
  /\ startIndex = 0
  /\ chunkIndex = 0
  /\ chunks = <<>>
  /\ uuidCount = 0
  /\ results = <<>>
  /\ apiKeys \in keySets
  /\ llm = "none"
  /\ aop = "none"
  /\ apc = "idle"
  /\ failure = "none"
  /\ responseText = <<>>
  /\ parserThrew = FALSE
  /\ outcome = "none"
  /\ opResult = JUndefined
  /\ ParseIdle
  /\ SearchIdle
  /\ InsightIdle
  /\ SystemIdle
  /\ disk = UserFiles
  /\ storeDocuments = EmptyMap
  /\ storeChunks = EmptyMap
  /\ reqs = <<>>
  /\ idCount = 0
  /\ lightDocuments = EmptyMap

\* A program that calls processFile and clearStore on the system object.
InitStore == InitFiles({{}})

\* The web server process at its start.
InitServer == InitFiles(ServerKeySets)

storeFrame == <<chunkVars, analyzeVars, parseVars, searchVars, insightVars, initPc, connTest,
                initResult, task, taskCount, opLog>>

\* Work of the main process stands still while createChunks loops; the
\* lightweight server is a process of its own.
Blocked(kind) == kind # "lightUpload" /\ Hung

\* processFile returns b: a direct caller has its result, the upload handler
\* goes on after its await.
FileReturned(r, b) ==
  [r EXCEPT !.result = b, !.pc = IF r.kind = "upload" THEN "respond" ELSE "done"]

\* initializeSystem stores what initialize() resolved to, then app.listen.
Listen ==
  /\ ~Hung
  /\ initPc = "done"
  /\ ~listening
  /\ systemReady' = (initResult = "true")
  /\ listening' = TRUE
  /\ UNCHANGED <<storeFrame, storeVars>>

\* processFile(p), up to its await of fs.pathExists.
CallProcessFile(p) ==
  /\ ~Hung
  /\ Len(reqs) < MaxRequests
  /\ reqs' = Append(reqs, Req("processFile", p, NoName, "pathExists"))
  /\ UNCHANGED <<disk, storeDocuments, storeChunks, idCount, lightDocuments, storeFrame,
                 systemReady, listening>>

\* pathExists resolves: a missing file returns false; a path without
\* processor makes ProcessorFactory.processFile reject, which the catch block
\* turns into false; otherwise the processor starts reading.
PathExistsSettles(i) ==
  /\ i \in 1..Len(reqs)
  /\ reqs[i].pc = "pathExists"
  /\ ~Blocked(reqs[i].kind)
  /\ LET r == reqs[i]
     IN  reqs' = [reqs EXCEPT ![i] =
                    IF r.path \notin DOMAIN disk \/ GetProcessor(r.path) = "none"
                      THEN FileReturned(r, "false")
                      ELSE [r EXCEPT !.pc = "readFile"]]
  /\ UNCHANGED <<disk, storeDocuments, storeChunks, idCount, lightDocuments, storeFrame,
                 systemReady, listening>>

\* The processor has the content: it returns its result, or never leaves
\* createChunks.
Processed(i, text) ==
  LET r == reqs[i]
      out == Process(r.path, text, idCount)
  IN  /\ reqs' = [reqs EXCEPT ![i] = IF out.hung THEN [r EXCEPT !.pc = "hung"]
                                     ELSE [r EXCEPT !.pc = "processed", !.held = out.result]]
      /\ idCount' = IF out.hung THEN idCount ELSE idCount + out.drawn

\* fs.readFile settles inside the processor: a rejection is rethrown and makes
\* processFile return false.
ReadFileSettles(i, ok) ==
  /\ i \in 1..Len(reqs)
  /\ reqs[i].pc = "readFile"
  /\ ~Blocked(reqs[i].kind)
  /\ ok => reqs[i].path \in DOMAIN disk
  /\ LET r == reqs[i]
     IN  IF ~ok
           THEN reqs' = [reqs EXCEPT ![i] = FileReturned(r, "false")] /\ idCount' = idCount
         ELSE IF GetProcessor(r.path) = "pdf"
           THEN /\ reqs' = [reqs EXCEPT ![i] = [r EXCEPT !.pc = "pdfParse",
                                                         !.buffer = disk[r.path]]]
                /\ idCount' = idCount
         ELSE Processed(i, disk[r.path])
  /\ UNCHANGED <<disk, storeDocuments, storeChunks, lightDocuments, storeFrame,
                 systemReady, listening>>

\* pdf(dataBuffer) settles in PDFProcessor.process.
PdfParseSettles(i, ok) ==
  /\ i \in 1..Len(reqs)
  /\ reqs[i].pc = "pdfParse"
  /\ ~Blocked(reqs[i].kind)
  /\ IF ok THEN Processed(i, reqs[i].buffer)
     ELSE reqs' = [reqs EXCEPT ![i] = FileReturned(reqs[i], "false")] /\ idCount' = idCount
  /\ UNCHANGED <<disk, storeDocuments, storeChunks, lightDocuments, storeFrame,
                 systemReady, listening>>

\* processFile after its await of the processor: addDocument, addChunks,
\* return true.
ProcessFileReturns(i) ==
  /\ i \in 1..Len(reqs)
  /\ reqs[i].pc = "processed"
  /\ ~Blocked(reqs[i].kind)
  /\ LET r == reqs[i]
         document == r.held.document
     IN  /\ storeDocuments' = (document.id :> document) @@ storeDocuments
         /\ storeChunks' = (document.id :> r.held.chunks) @@ storeChunks
         /\ reqs' = [reqs EXCEPT ![i] = FileReturned([r EXCEPT !.added = document.id], "true")]
  /\ UNCHANGED <<disk, idCount, lightDocuments, storeFrame, systemReady, listening>>

\* A clear that forgets the documents and keeps their chunk lists.
ClearDocumentsOnly ==
  /\ ~Hung
  /\ storeDocuments' = EmptyMap
  /\ storeChunks' = storeChunks
  /\ UNCHANGED <<disk, reqs, idCount, lightDocuments, storeFrame, systemReady, listening>>

\* clearStore(): DocumentStore.clear empties both maps.
ClearStore ==
  /\ ~Hung
  /\ storeDocuments' = EmptyMap
  /\ storeChunks' = EmptyMap
  /\ UNCHANGED <<disk, reqs, idCount, lightDocuments, storeFrame, systemReady, listening>>

\* POST /api/upload on the full server: multer has written the temporary file
\* when the request carries one; the handler runs to its first await.
Upload(original, text) ==
  /\ ~Hung
  /\ listening
  /\ Len(reqs) < MaxRequests
  /\ original = NoName => text = <<>>
  /\ LET i == Len(reqs) + 1
         hasFile == original # NoName
         p == IF hasFile THEN UploadPath(i, original) ELSE NoPath
         call == Req("upload", p, original, "pathExists")
     IN  /\ disk' = IF hasFile THEN (p :> text) @@ disk ELSE disk
         /\ reqs' = Append(reqs,
              IF ~systemReady THEN [call EXCEPT !.pc = "done", !.status = 503]
              ELSE IF ~hasFile THEN [call EXCEPT !.pc = "done", !.status = 400]
              ELSE IF Extname(original) = ".pdf" THEN [call EXCEPT !.pc = "removeRejected"]
              ELSE call)
  /\ UNCHANGED <<storeDocuments, storeChunks, idCount, lightDocuments, storeFrame,
                 systemReady, listening>>

\* fs.remove of a file of a rejected type resolves; the handler answers 400.
RemoveRejectedSettles(i) ==
  /\ i \in 1..Len(reqs)
  /\ reqs[i].pc = "removeRejected"
  /\ ~Blocked(reqs[i].kind)
  /\ disk' = Without(disk, reqs[i].path)
  /\ reqs' = [reqs EXCEPT ![i] = [@ EXCEPT !.pc = "done", !.status = 400]]
  /\ UNCHANGED <<storeDocuments, storeChunks, idCount, lightDocuments, storeFrame,
                 systemReady, listening>>

\* documents.find(doc => doc.metadata.filename === originalname): the first
\* stored document, in insertion order, with that file name.
FindByFilename(documents, name) ==
  LET matches == {d \in DOMAIN documents : documents[d].filename = name}
  IN  IF matches = {} THEN NoBody
      ELSE LET d == CHOOSE m \in matches : \A o \in matches : m <= o
           IN  [id |-> documents[d].id, filename |-> documents[d].filename,
                chunkCount |-> documents[d].chunkCount]

\* The upload handler after processFile: the response, then the await of
\* fs.remove.
Respond(i) ==
  /\ i \in 1..Len(reqs)
  /\ reqs[i].pc = "respond"
  /\ ~Blocked(reqs[i].kind)
  /\ LET r == reqs[i]
     IN  reqs' = [reqs EXCEPT ![i] =
                    IF r.result = "true"
                      THEN [r EXCEPT !.pc = "remove", !.status = 200,
                                     !.body = FindByFilename(storeDocuments, r.original)]
                      ELSE [r EXCEPT !.pc = "remove", !.status = 500]]
  /\ UNCHANGED <<disk, storeDocuments, storeChunks, idCount, lightDocuments, storeFrame,
                 systemReady, listening>>

\* The clean-up fs.remove resolves and the handler ends.
RemoveSettles(i) ==
  /\ i \in 1..Len(reqs)
  /\ reqs[i].pc = "remove"
  /\ ~Blocked(reqs[i].kind)
  /\ disk' = Without(disk, reqs[i].path)
  /\ reqs' = [reqs EXCEPT ![i] = [@ EXCEPT !.pc = "done"]]
  /\ UNCHANGED <<storeDocuments, storeChunks, idCount, lightDocuments, storeFrame,
                 systemReady, listening>>

\* POST /api/upload on the lightweight server, to its first await.
LightUpload(original, text) ==
  /\ Len(reqs) < MaxRequests
  /\ original = NoName => text = <<>>
  /\ LET i == Len(reqs) + 1
         hasFile == original # NoName
         p == IF hasFile THEN UploadPath(i, original) ELSE NoPath
         call == Req("lightUpload", p, original, "lightRead")
     IN  /\ disk' = IF hasFile THEN (p :> text) @@ disk ELSE disk
         /\ reqs' = Append(reqs,
              IF ~hasFile THEN [call EXCEPT !.pc = "done", !.status = 400]
              ELSE IF Extname(original) \notin LightExtensions
                THEN [call EXCEPT !.pc = "removeRejected"]
              ELSE call)
  /\ UNCHANGED <<storeDocuments, storeChunks, idCount, lightDocuments, storeFrame,
                 systemReady, listening>>

\* The lightweight handler's readFile settles: the document is stored and
\* answered, then fs.remove is awaited; a rejection goes to the catch block.
LightReadSettles(i, ok) ==
  /\ i \in 1..Len(reqs)
  /\ reqs[i].pc = "lightRead"
  /\ ok => reqs[i].path \in DOMAIN disk
  /\ IF ok
       THEN LET r == reqs[i]
                text == disk[r.path]
                document == [id |-> Uuid(idCount), content |-> text, filename |-> r.original,
                             fileType |-> Extname(r.original), size |-> Len(text),
                             chunkCount |-> CeilDiv(Len(text), LightChunkLength)]
            IN  /\ lightDocuments' = (document.id :> document) @@ lightDocuments
                /\ idCount' = idCount + 1
                /\ reqs' = [reqs EXCEPT ![i] =
                              [r EXCEPT !.pc = "remove", !.status = 200,
                                        !.body = [id |-> document.id,
                                                  filename |-> document.filename,
                                                  chunkCount |-> document.chunkCount]]]
       ELSE /\ reqs' = [reqs EXCEPT ![i] = [@ EXCEPT !.pc = "done", !.status = 500]]
            /\ UNCHANGED <<lightDocuments, idCount>>
  /\ UNCHANGED <<disk, storeDocuments, storeChunks, storeFrame, systemReady, listening>>

NextStore ==
  \/ \E p \in DirectPaths : CallProcessFile(p)
  \/ \E i \in 1..MaxRequests : PathExistsSettles(i)
  \/ \E i \in 1..MaxRequests, ok \in BOOLEAN : ReadFileSettles(i, ok)
  \/ \E i \in 1..MaxRequests, ok \in BOOLEAN : PdfParseSettles(i, ok)
  \/ \E i \in 1..MaxRequests : ProcessFileReturns(i)
  \/ ClearStore

SpecStore == InitStore /\ [][NextStore]_vars

NextServer ==
  \/ Initialize
  \/ \E passed \in BOOLEAN : ConnectionSettles(passed)
  \/ Listen
  \/ \E original \in OriginalNames \cup {NoName}, text \in FileContents : Upload(original, text)
  \/ \E i \in 1..MaxRequests : PathExistsSettles(i)
  \/ \E i \in 1..MaxRequests, ok \in BOOLEAN : ReadFileSettles(i, ok)
  \/ \E i \in 1..MaxRequests : ProcessFileReturns(i)
  \/ \E i \in 1..MaxRequests : RemoveRejectedSettles(i)
  \/ \E i \in 1..MaxRequests : Respond(i)
  \/ \E i \in 1..MaxRequests : RemoveSettles(i)
  \/ \E original \in LightNames \cup {NoName}, text \in FileContents :
       LightUpload(original, text)
  \/ \E i \in 1..MaxRequests, ok \in BOOLEAN : LightReadSettles(i, ok)

SpecServer == InitServer /\ [][NextServer]_vars

\* ------------------------------------------------------------------ chunking claims
ValidWindow == 0 <= chunkOverlap /\ chunkOverlap < chunkSize

\* The fields of a chunk that createChunks computes from its inputs.
ChunkView(c) == [content |-> c.content, index |-> c.index,
                 startChar |-> c.startChar, endChar |-> c.endChar]
ChunkViews(cs) == [i \in 1..Len(cs) |-> ChunkView(cs[i])]

\* C1: for 0 <= O < W createChunks terminates. The loop's guard reads only
\* startIndex and content, and its body is deterministic, so it terminates only
\* if no iteration comes back to the loop head with the offset it started from.
C1_LoopTerminates ==
  [][(ChunkStep /\ ValidWindow) => startIndex' # startIndex]_vars

\* C2: with O >= W chunking is rejected as a configuration error before any
\* chunk is produced.
C2_InvalidWindowRejected ==
  chunkOverlap >= chunkSize => chunks = <<>>

\* C3: for 0 <= O < W the chunks emitted satisfy start_0 = 0,
\* start_{i+1} = start_i + W - O, and chunk i covers
\* [start_i, min(start_i + W, length(content))).
C3_WindowRecurrence ==
  ValidWindow =>
    \A i \in 1..Len(chunks) :
      /\ i = 1 => chunks[i].startChar = 0
      /\ i > 1 => chunks[i].startChar = chunks[i - 1].startChar + chunkSize - chunkOverlap
      /\ chunks[i].endChar = Min(chunks[i].startChar + chunkSize, Len(content))

\* C4: for length(T) <= W and 0 <= O < W createChunks returns exactly one chunk,
\* with content T, startChar 0 and endChar length(T): a call never emits a
\* second chunk and every returned array is that single chunk.
C4_ShortTextOneChunk ==
  (ValidWindow /\ Len(content) <= chunkSize) =>
    /\ Len(chunks) <= 1
    /\ \A k \in 1..Len(results) :
         /\ Len(results[k]) = 1
         /\ results[k][1].content = content
         /\ results[k][1].startChar = 0
         /\ results[k][1].endChar = Len(content)

\* C5: for 0 < O < W the start offsets are strictly increasing, consecutive
\* chunks leave no gap (start_{i+1} <= end_i), the first chunk starts at 0 and
\* the last chunk of a returned array ends at length(T).
C5_ContiguousIncreasing ==
  (0 < chunkOverlap /\ chunkOverlap < chunkSize) =>
    /\ \A i \in 1..Len(chunks) :
         /\ i = 1 => chunks[i].startChar = 0
         /\ i > 1 => /\ chunks[i].startChar > chunks[i - 1].startChar
                     /\ chunks[i].startChar <= chunks[i - 1].endChar
    /\ \A k \in 1..Len(results) :
         Len(results[k]) > 0 => results[k][Len(results[k])].endChar = Len(content)

\* C6: two calls of createChunks with the same content, window and overlap
\* return equal chunk sequences (same length and, position by position, the
\* same content, index, startChar and endChar), whatever calls came before.
C6_Deterministic ==
  \A j, k \in 1..Len(results) : ChunkViews(results[j]) = ChunkViews(results[k])

\* C6 witness: two calls returned several chunks each, under different ids.
C6_Witness ==
  /\ Len(results) = 2
  /\ Len(results[1]) >= 2
  /\ results[1][1].id # results[2][1].id

\* C7: at every point of a run with 0 <= O < W every chunk emitted so far has
\* index = its position, documentId = the document's id,
\* 0 <= startChar < endChar <= length(content) and content equal to the
\* substring [startChar, endChar) of the document content.
C7_ChunkWellFormed ==
  ValidWindow =>
    \A i \in 1..Len(chunks) :
      /\ chunks[i].index = i - 1
      /\ chunks[i].documentId = documentId
      /\ 0 <= chunks[i].startChar
      /\ chunks[i].startChar < chunks[i].endChar
      /\ chunks[i].endChar <= Len(content)
      /\ chunks[i].content = SubSeq(content, chunks[i].startChar + 1, chunks[i].endChar)

\* ------------------------------------------------------------------ store claims
\* C23: whatever the interleaving of processFile and clearStore calls, a
\* document is in the store exactly when a chunk list is registered under its
\* id, and that list holds chunks of this document only.
C23_StoreNeverHalfWritten ==
  /\ DOMAIN storeDocuments = DOMAIN storeChunks
  /\ \A id \in DOMAIN storeChunks :
       /\ storeDocuments[id].id = id
       /\ \A k \in 1..Len(storeChunks[id]) : storeChunks[id][k].documentId = id

\* C23 witness: a clearStore ran between two ingestions: the document of one
\* finished processFile is gone, that of another is stored.
C23_Witness ==
  \E i, j \in 1..Len(reqs) :
    /\ reqs[i].result = "true"
    /\ reqs[i].added \notin DOMAIN storeDocuments
    /\ reqs[j].result = "true"
    /\ reqs[j].added \in DOMAIN storeDocuments
    /\ Len(storeChunks[reqs[j].added]) > 0

\* C24: every document stored through processFile has chunkCount equal to the
\* number of chunks stored for its id, and as long as it is stored its content
\* and its chunk list are the ones the processor returned.
C24_ChunkCountAndFrozen ==
  /\ \A id \in DOMAIN storeDocuments :
       /\ id \in DOMAIN storeChunks
       /\ storeDocuments[id].chunkCount = Len(storeChunks[id])
  /\ \A i \in 1..Len(reqs) :
       reqs[i].added \in DOMAIN storeDocuments =>
         /\ storeDocuments[reqs[i].added] = reqs[i].held.document
         /\ storeDocuments[reqs[i].added].content = UserFiles[reqs[i].path]
         /\ storeChunks[reqs[i].added] = reqs[i].held.chunks

\* C24 witness: a stored document of two chunks, with another call in progress.
C24_Witness ==
  \E i, j \in 1..Len(reqs) :
    /\ reqs[i].added \in DOMAIN storeDocuments
    /\ storeDocuments[reqs[i].added].chunkCount = 2
    /\ reqs[j].pc = "processed"

\* C26: a processFile that returned false has added no document and no chunk
\* list, and every processFile call resolves to true or false: none rejects
\* and none stays inside the processor for ever.
C26_FalseAddsNothing ==
  \A i \in 1..Len(reqs) :
    /\ reqs[i].result \in {"pending", "true", "false"}
    /\ reqs[i].result = "false" => reqs[i].added = Undefined
    /\ reqs[i].added # Undefined => reqs[i].result = "true"
    /\ reqs[i].pc # "hung"

\* ------------------------------------------------------------------ server claims
\* C28: initialize() returns true exactly when validateConfig() returns true,
\* whatever the connection test did, and the server's systemReady flag is false
\* until the server listens and from then on is what initialize() returned.
C28_ReadyFollowsConfig ==
  /\ initPc = "done" => (initResult = "true" <=> ValidateConfig)
  /\ initPc # "done" => initResult = "none"
  /\ listening => initPc = "done" /\ (systemReady <=> ValidateConfig)
  /\ ~listening => ~systemReady

\* C28 witness: the server is ready and has answered an upload with 200
\* although the connection test could not even build a client.
C28_Witness ==
  /\ systemReady
  /\ listening
  /\ connTest = "failed"
  /\ GetLLM.threw
  /\ \E i \in 1..Len(reqs) : reqs[i].kind = "upload" /\ reqs[i].status = 200

C30_TempFileRemoved ==
  \A i \in 1..Len(reqs) :
    (/\ reqs[i].kind \in {"upload", "lightUpload"}
     /\ reqs[i].original # NoName
     /\ reqs[i].pc = "done") =>
      /\ reqs[i].status \in {200, 400, 500, 503}
      /\ reqs[i].path \notin DOMAIN disk

====
